---- MODULE Spec2Model ----
(***************************************************************************)
(* Model of the MyBambu transfer engine: src/src/server.ts (tool handlers, *)
(* rate cache, stores) and src/src/services/wise.ts (provider sequence).   *)
(*                                                                         *)
(* Units.  USD amounts are integers in cents, exchange rates are integers  *)
(* in tenths (17.5 is 175), times are integers in milliseconds.  Strings   *)
(* the code transforms or searches (toLowerCase, includes) are sequences   *)
(* of one-character strings; strings the code only copies are TLA+ strings.*)
(* A JavaScript object is a function whose DOMAIN is its set of keys, so a *)
(* missing key (undefined) is a name outside the DOMAIN.                   *)
(***************************************************************************)
EXTENDS Integers, Sequences, FiniteSets, Bags, TLC

VARIABLES
  now,                 \* Date.now()
  useRealAPI,          \* server.ts:3604, fixed at start-up
  exchangeRatesCache,  \* server.ts:26
  lastFetchTime,       \* server.ts:27
  transfers,           \* server.ts:31, Map id -> record
  transferOrder,       \* insertion order of the Map transfers
  transferCounter,     \* server.ts:32
  recipients,          \* server.ts:35, Map id -> record
  recipientOrder,      \* insertion order of the Map recipients
  recipientCounter,    \* server.ts:36
  scheduledTransfers,  \* server.ts:39, Map id -> record
  scheduledOrder,      \* insertion order of the Map scheduledTransfers
  scheduledCounter,    \* server.ts:40
  wiseTransfers,       \* provider side: transfers the provider accepted
  calls,               \* bag of the handler invocations suspended at an await
  response             \* the response a handler has returned, until the
                       \* transport has sent it to the client

vars == << now, useRealAPI, exchangeRatesCache, lastFetchTime, transfers,
           transferOrder, transferCounter, recipients, recipientOrder,
           recipientCounter, scheduledTransfers, scheduledOrder,
           scheduledCounter, wiseTransfers, calls, response >>

-----------------------------------------------------------------------------
(* Bounds of the model *)

MaxTransfers == 2      \* transfer identifiers handed out in one run
MaxRecipients == 2     \* recipient identifiers handed out in one run
MaxCalls == 2          \* handler invocations suspended at the same time
MaxTicks == 1          \* times the clock advances by one cache period
MaxProviderRuns == 1   \* send_money invocations in real-provider mode in one run
MaxSchedules == 2      \* schedule identifiers handed out in one run
MaxCount == 4          \* execution dates asked of getNextExecutionDates

-----------------------------------------------------------------------------
(* Program constants *)

CACHE_DURATION == 60 * 60 * 1000          \* server.ts:28
perTransaction == 500000                  \* server.ts:45, 5000 USD in cents
standard == 15                            \* server.ts:47, 0.015 as thousandths
minFee == 299                             \* server.ts:47, 2.99 USD in cents
maxFee == 5000                            \* server.ts:47, 50 USD in cents
InitialTransferCounter == 1000            \* server.ts:32
InitialRecipientCounter == 1              \* server.ts:36
InitialScheduledCounter == 1              \* server.ts:40

\* server.ts:52-112
SUPPORTED_CORRIDORS ==
  << [country |-> <<"M","e","x","i","c","o">>, currency |-> "MXN", deliveryTime |-> "Minutes to hours", region |-> "Latin America"],
     [country |-> <<"B","r","a","z","i","l">>, currency |-> "BRL", deliveryTime |-> "Minutes to hours", region |-> "Latin America"],
     [country |-> <<"C","o","l","o","m","b","i","a">>, currency |-> "COP", deliveryTime |-> "Minutes to hours", region |-> "Latin America"],
     [country |-> <<"A","r","g","e","n","t","i","n","a">>, currency |-> "ARS", deliveryTime |-> "1-2 business days", region |-> "Latin America"],
     [country |-> <<"C","h","i","l","e">>, currency |-> "CLP", deliveryTime |-> "Minutes to hours", region |-> "Latin America"],
     [country |-> <<"C","o","s","t","a"," ","R","i","c","a">>, currency |-> "CRC", deliveryTime |-> "Minutes to hours", region |-> "Latin America"],
     [country |-> <<"G","u","a","t","e","m","a","l","a">>, currency |-> "GTQ", deliveryTime |-> "Minutes to hours", region |-> "Latin America"],
     [country |-> <<"U","r","u","g","u","a","y">>, currency |-> "UYU", deliveryTime |-> "1-2 business days", region |-> "Latin America"],
     [country |-> <<"I","n","d","i","a">>, currency |-> "INR", deliveryTime |-> "Minutes to hours", region |-> "Asia"],
     [country |-> <<"P","h","i","l","i","p","p","i","n","e","s">>, currency |-> "PHP", deliveryTime |-> "Minutes to hours", region |-> "Asia"],
     [country |-> <<"S","i","n","g","a","p","o","r","e">>, currency |-> "SGD", deliveryTime |-> "Minutes", region |-> "Asia"],
     [country |-> <<"J","a","p","a","n">>, currency |-> "JPY", deliveryTime |-> "Minutes", region |-> "Asia"],
     [country |-> <<"H","o","n","g"," ","K","o","n","g">>, currency |-> "HKD", deliveryTime |-> "Minutes", region |-> "Asia"],
     [country |-> <<"T","h","a","i","l","a","n","d">>, currency |-> "THB", deliveryTime |-> "Minutes to hours", region |-> "Asia"],
     [country |-> <<"M","a","l","a","y","s","i","a">>, currency |-> "MYR", deliveryTime |-> "Minutes to hours", region |-> "Asia"],
     [country |-> <<"I","n","d","o","n","e","s","i","a">>, currency |-> "IDR", deliveryTime |-> "1-2 business days", region |-> "Asia"],
     [country |-> <<"V","i","e","t","n","a","m">>, currency |-> "VND", deliveryTime |-> "Minutes to hours", region |-> "Asia"],
     [country |-> <<"S","o","u","t","h"," ","K","o","r","e","a">>, currency |-> "KRW", deliveryTime |-> "Minutes to hours", region |-> "Asia"],
     [country |-> <<"C","h","i","n","a">>, currency |-> "CNY", deliveryTime |-> "1-2 business days", region |-> "Asia"],
     [country |-> <<"P","a","k","i","s","t","a","n">>, currency |-> "PKR", deliveryTime |-> "Minutes to hours", region |-> "Asia"],
     [country |-> <<"B","a","n","g","l","a","d","e","s","h">>, currency |-> "BDT", deliveryTime |-> "Minutes to hours", region |-> "Asia"],
     [country |-> <<"U","n","i","t","e","d"," ","K","i","n","g","d","o","m">>, currency |-> "GBP", deliveryTime |-> "Minutes", region |-> "Europe"],
     [country |-> <<"G","e","r","m","a","n","y">>, currency |-> "EUR", deliveryTime |-> "Minutes", region |-> "Europe"],
     [country |-> <<"F","r","a","n","c","e">>, currency |-> "EUR", deliveryTime |-> "Minutes", region |-> "Europe"],
     [country |-> <<"S","p","a","i","n">>, currency |-> "EUR", deliveryTime |-> "Minutes", region |-> "Europe"],
     [country |-> <<"I","t","a","l","y">>, currency |-> "EUR", deliveryTime |-> "Minutes", region |-> "Europe"],
     [country |-> <<"N","e","t","h","e","r","l","a","n","d","s">>, currency |-> "EUR", deliveryTime |-> "Minutes", region |-> "Europe"],
     [country |-> <<"P","o","l","a","n","d">>, currency |-> "PLN", deliveryTime |-> "Minutes to hours", region |-> "Europe"],
     [country |-> <<"R","o","m","a","n","i","a">>, currency |-> "RON", deliveryTime |-> "Minutes to hours", region |-> "Europe"],
     [country |-> <<"T","u","r","k","e","y">>, currency |-> "TRY", deliveryTime |-> "Minutes to hours", region |-> "Europe"],
     [country |-> <<"S","w","i","t","z","e","r","l","a","n","d">>, currency |-> "CHF", deliveryTime |-> "Minutes", region |-> "Europe"],
     [country |-> <<"S","w","e","d","e","n">>, currency |-> "SEK", deliveryTime |-> "Minutes", region |-> "Europe"],
     [country |-> <<"N","o","r","w","a","y">>, currency |-> "NOK", deliveryTime |-> "Minutes", region |-> "Europe"],
     [country |-> <<"D","e","n","m","a","r","k">>, currency |-> "DKK", deliveryTime |-> "Minutes", region |-> "Europe"],
     [country |-> <<"C","z","e","c","h"," ","R","e","p","u","b","l","i","c">>, currency |-> "CZK", deliveryTime |-> "Minutes to hours", region |-> "Europe"],
     [country |-> <<"H","u","n","g","a","r","y">>, currency |-> "HUF", deliveryTime |-> "Minutes to hours", region |-> "Europe"],
     [country |-> <<"S","o","u","t","h"," ","A","f","r","i","c","a">>, currency |-> "ZAR", deliveryTime |-> "Minutes to hours", region |-> "Africa"],
     [country |-> <<"N","i","g","e","r","i","a">>, currency |-> "NGN", deliveryTime |-> "Minutes to hours", region |-> "Africa"],
     [country |-> <<"K","e","n","y","a">>, currency |-> "KES", deliveryTime |-> "Minutes to hours", region |-> "Africa"],
     [country |-> <<"E","g","y","p","t">>, currency |-> "EGP", deliveryTime |-> "Minutes to hours", region |-> "Africa"],
     [country |-> <<"M","o","r","o","c","c","o">>, currency |-> "MAD", deliveryTime |-> "Minutes to hours", region |-> "Africa"],
     [country |-> <<"U","n","i","t","e","d"," ","A","r","a","b"," ","E","m","i","r","a","t","e","s">>, currency |-> "AED", deliveryTime |-> "Minutes to hours", region |-> "Middle East"],
     [country |-> <<"I","s","r","a","e","l">>, currency |-> "ILS", deliveryTime |-> "Minutes to hours", region |-> "Middle East"],
     [country |-> <<"A","u","s","t","r","a","l","i","a">>, currency |-> "AUD", deliveryTime |-> "Minutes", region |-> "Oceania"],
     [country |-> <<"N","e","w"," ","Z","e","a","l","a","n","d">>, currency |-> "NZD", deliveryTime |-> "Minutes to hours", region |-> "Oceania"],
     [country |-> <<"C","a","n","a","d","a">>, currency |-> "CAD", deliveryTime |-> "Minutes", region |-> "North America"] >>

-----------------------------------------------------------------------------
(* Texts *)

TXT_403 == <<"4","0","3">>
TXT_forbidden == <<"f","o","r","b","i","d","d","e","n">>
TXT_RequestFailed == <<"R","e","q","u","e","s","t"," ","f","a","i","l","e","d"," ","w","i","t","h"," ","s","t","a","t","u","s"," ","c","o","d","e"," ">>
TXT_NetworkError == <<"N","e","t","w","o","r","k"," ","E","r","r","o","r">>
TXT_QuotePrefix == <<"F","a","i","l","e","d"," ","t","o"," ","c","r","e","a","t","e"," ","q","u","o","t","e",":"," ">>
TXT_RecipientPrefix == <<"W","i","s","e"," ","r","e","c","i","p","i","e","n","t"," ","c","r","e","a","t","i","o","n"," ","f","a","i","l","e","d",":"," ">>
TXT_TransferPrefix == <<"F","a","i","l","e","d"," ","t","o"," ","c","r","e","a","t","e"," ","t","r","a","n","s","f","e","r",":"," ">>
TXT_FundPrefix == <<"F","a","i","l","e","d"," ","t","o"," ","f","u","n","d"," ","t","r","a","n","s","f","e","r",":"," ">>
TXT_WiseFailed == <<"W","i","s","e"," ","A","P","I"," ","f","a","i","l","e","d",":"," ">>
TXT_UsingSimulation == <<"."," ","U","s","i","n","g"," ","s","i","m","u","l","a","t","i","o","n",".">>
MSG_ForbiddenRequest == <<"Y","o","u"," ","a","r","e"," ","f","o","r","b","i","d","d","e","n"," ","t","o"," ","s","e","n","d"," ","t","h","i","s"," ","r","e","q","u","e","s","t">>
MSG_AccessDenied == <<"A","c","c","e","s","s"," ","D","e","n","i","e","d">>
MSG_Unprocessable == <<"U","n","p","r","o","c","e","s","s","a","b","l","e">>
ERR_NotValid == <<"N","O","T","_","V","A","L","I","D">>
NAME_Maria == <<"M","a","r","i","a">>
NAME_Juan == <<"J","u","a","n">>
NAME_mar == <<"m","a","r">>
IN_Mexico == <<"M","e","x","i","c","o">>
IN_BRAZIL == <<"B","R","A","Z","I","L">>
IN_Atlantis == <<"A","t","l","a","n","t","i","s">>

TXT_TXN == <<"T","X","N","-">>
TXT_RCP == <<"R","C","P","-">>
TXT_SCH == <<"S","C","H","-">>
TXT_WISE == <<"W","I","S","E","-">>

Digit == <<"0","1","2","3","4","5","6","7","8","9">>

RECURSIVE NumberToString(_)
\* template-literal formatting of a non-negative integer
NumberToString(n) ==
  IF n < 10 THEN << Digit[n + 1] >>
  ELSE NumberToString(n \div 10) \o << Digit[(n % 10) + 1] >>

UpperToLower ==
  ("A" :> "a") @@ ("B" :> "b") @@ ("C" :> "c") @@ ("D" :> "d") @@ ("E" :> "e") @@
  ("F" :> "f") @@ ("G" :> "g") @@ ("H" :> "h") @@ ("I" :> "i") @@ ("J" :> "j") @@
  ("K" :> "k") @@ ("L" :> "l") @@ ("M" :> "m") @@ ("N" :> "n") @@ ("O" :> "o") @@
  ("P" :> "p") @@ ("Q" :> "q") @@ ("R" :> "r") @@ ("S" :> "s") @@ ("T" :> "t") @@
  ("U" :> "u") @@ ("V" :> "v") @@ ("W" :> "w") @@ ("X" :> "x") @@ ("Y" :> "y") @@
  ("Z" :> "z")

\* String.prototype.toLowerCase
toLowerCase(s) ==
  [i \in 1..Len(s) |-> IF s[i] \in DOMAIN UpperToLower THEN UpperToLower[s[i]] ELSE s[i]]

\* String.prototype.includes
includes(s, sub) ==
  \E i \in 0..(Len(s) - Len(sub)) : SubSeq(s, i + 1, i + Len(sub)) = sub

\* JSON.stringify of an array of strings
RECURSIVE JoinQuoted(_)
JoinQuoted(xs) ==
  IF xs = << >> THEN << >>
  ELSE << "\"" >> \o Head(xs) \o << "\"" >>
       \o (IF Len(xs) > 1 THEN << "," >> ELSE << >>) \o JoinQuoted(Tail(xs))

JSONstringify(xs) == << "[" >> \o JoinQuoted(xs) \o << "]" >>

\* obj.key, with a missing key read as undefined
Has(obj, key) == key \in DOMAIN obj

Max(a, b) == IF a >= b THEN a ELSE b
Min(a, b) == IF a <= b THEN a ELSE b

-----------------------------------------------------------------------------
(* CorridorRegistry *)

\* a variant of FindCorridor that compares the names as written, for C3
FindCorridorExact(name) ==
  LET hits == { i \in 1..Len(SUPPORTED_CORRIDORS) : SUPPORTED_CORRIDORS[i].country = name }
  IN IF hits = {} THEN 0 ELSE CHOOSE i \in hits : \A j \in hits : i <= j

\* SUPPORTED_CORRIDORS.find(c => c.country.toLowerCase() === name.toLowerCase()):
\* the index of the first match, 0 when there is none
FindCorridor(name) ==
  LET hits == { i \in 1..Len(SUPPORTED_CORRIDORS) :
                  toLowerCase(SUPPORTED_CORRIDORS[i].country) = toLowerCase(name) }
  IN IF hits = {} THEN 0 ELSE CHOOSE i \in hits : \A j \in hits : i <= j

\* SUPPORTED_CORRIDORS.map(c => c.country)
SupportedCountries == [i \in 1..Len(SUPPORTED_CORRIDORS) |-> SUPPORTED_CORRIDORS[i].country]

-----------------------------------------------------------------------------
(* FeeCalculator *)

\* amount * transferLimits.fees.standard, exact for amounts that are
\* multiples of 2 USD
PercentageFee(amount) == (amount * standard) \div 1000

\* a variant of ClampedFee without the floor and the cap, for C5
UnclampedFee(amount) == PercentageFee(amount)

\* Math.max(minFee, Math.min(amount * standard, maxFee))
ClampedFee(amount) == Max(minFee, Min(PercentageFee(amount), maxFee))

-----------------------------------------------------------------------------
(* RateProvider: fetchExchangeRates *)

Null == [null |-> TRUE]

AllCurrencies == { SUPPORTED_CORRIDORS[i].currency : i \in 1..Len(SUPPORTED_CORRIDORS) }

\* data.rates of a successful fetch: the source quotes every corridor
\* currency; mxn is the MXN rate of the day
LiveRates(mxn) ==
  [c \in AllCurrencies |-> IF c = "MXN" THEN mxn ELSE IF c = "BRL" THEN 54 ELSE 10]

\* the answers of the rate source the model draws from
LiveTables == { LiveRates(180) }

\* server.ts:136-143, the built-in table
FallbackRates ==
  ("MXN" :> 175) @@ ("GTQ" :> 78) @@ ("HNL" :> 245) @@ ("DOP" :> 582) @@
  ("COP" :> 41000) @@ ("PEN" :> 37) @@ ("NIO" :> 365) @@ ("CRC" :> 5100)

\* server.ts:126-130
Snapshot(rates) == [base |-> "USD", rates |-> rates, timestamp |-> "data.date"]

\* server.ts:136-143
FallbackSnapshot(t) == [base |-> "USD", rates |-> FallbackRates, timestamp |-> t]

\* a variant of CacheFresh with the comparison turned round, for C15
CacheFreshInverted(t) == exchangeRatesCache # Null /\ (t - lastFetchTime) > CACHE_DURATION

\* server.ts:118
CacheFresh(t) == exchangeRatesCache # Null /\ (t - lastFetchTime) < CACHE_DURATION

\* a variant of CacheOrFallback that drops a stale cache, for C16
CacheOrFallbackUnlessStale(t) ==
  IF CacheFresh(t) THEN exchangeRatesCache ELSE FallbackSnapshot(t)

\* server.ts:136: exchangeRatesCache || { ...fallback }
CacheOrFallback(t) ==
  IF exchangeRatesCache # Null THEN exchangeRatesCache ELSE FallbackSnapshot(t)

\* rateData.rates[currency] is truthy
RateAvailable(rateData, currency) ==
  Has(rateData.rates, currency) /\ rateData.rates[currency] # 0

-----------------------------------------------------------------------------
(* Handler invocations *)

\* no response is waiting to be sent
None == [op |-> "none"]

\* a new invocation: it is not in the bag yet
New == EmptyBag

\* the invocations waiting at an await, without `old`, the one that resumes
Others(old) == calls (-) old

\* the invocation waits at an await (with c in place of itself, if it resumes)
Park(old, c) ==
  /\ BagCardinality(Others(old)) < MaxCalls
  /\ calls' = Others(old) (+) SetToBag({c})

\* the invocation returns
Finish(old) == calls' = Others(old)

Statuses == << "pending", "processing", "completed" >>

\* Array.prototype.indexOf, zero-based, -1 when absent
indexOf(seq, x) ==
  IF \E i \in 1..Len(seq) : seq[i] = x
  THEN (CHOOSE i \in 1..Len(seq) : seq[i] = x /\ \A j \in 1..Len(seq) : seq[j] = x => i <= j) - 1
  ELSE -1

\* a variant of TransferId that does not use the counter, for C12
TransferIdFixed(n) == TXT_TXN \o NumberToString(InitialTransferCounter)

\* `TXN-${n}`
TransferId(n) == TXT_TXN \o NumberToString(n)

\* a Map.prototype.set that loses the record
StoreTransferDropping(rec) == UNCHANGED << transfers, transferOrder >>

\* Map.prototype.set on transfers
StoreTransfer(rec) ==
  /\ transfers' = (rec.id :> rec) @@ transfers
  /\ transferOrder' = IF rec.id \in DOMAIN transfers THEN transferOrder
                      ELSE Append(transferOrder, rec.id)

\* the run hands out at most MaxTransfers transfer identifiers
CounterLimit == InitialTransferCounter + MaxTransfers

\* the invocations in flight that have not reserved their identifier yet
Unreserved == { c \in BagToSet(calls) : ~Has(c, "transferId") }

UnreservedCount == BagCardinality([c \in Unreserved |-> calls[c]])

\* an identifier is left for one more invocation
IdentifierLeft == transferCounter + UnreservedCount < CounterLimit

\* the send_money invocations so far that are in flight or have stored a record
SendMoneyRuns ==
  Cardinality({ id \in DOMAIN transfers : Has(transfers[id], "is_real_transfer") })
  + BagCardinality([c \in { d \in BagToSet(calls) : d.op = "send_money" } |-> calls[c]])

\* in real-provider mode the run starts at most MaxProviderRuns of them
ProviderRunLeft == useRealAPI => SendMoneyRuns < MaxProviderRuns

-----------------------------------------------------------------------------
(* The payment provider, as WiseService sees it through axios *)

\* an axios error for an HTTP error response
AxiosError(status, data) ==
  [message |-> TXT_RequestFailed \o NumberToString(status),
   response |-> [status |-> status, data |-> data]]

\* an axios error with no response
NetworkError == [message |-> TXT_NetworkError]

NoBody == << >>

\* the failures of a quote, recipient or transfer call the model draws from
ProviderFailures ==
  { NetworkError,
    AxiosError(422, [errors |-> << ERR_NotValid >>]),
    AxiosError(500, [message |-> MSG_Unprocessable]) }

\* the failures of the funding call the model draws from: the provider
\* refuses with 403 (no body, or a body with a message), or fails otherwise
FundingFailures ==
  { AxiosError(403, NoBody),
    AxiosError(403, [message |-> MSG_ForbiddenRequest]),
    AxiosError(403, [message |-> MSG_AccessDenied]),
    AxiosError(500, [message |-> MSG_Unprocessable]) }

\* error.response?.data?.message || error.message
DataMessageOrMessage(error) ==
  IF Has(error, "response") /\ Has(error.response.data, "message")
     /\ error.response.data.message # << >>
  THEN error.response.data.message
  ELSE error.message

\* wise.ts:73
QuoteErrorMessage(error) == TXT_QuotePrefix \o DataMessageOrMessage(error)

\* wise.ts:101-104
RecipientErrorMessage(error) ==
  TXT_RecipientPrefix \o
    (IF Has(error, "response") /\ Has(error.response.data, "errors")
     THEN JSONstringify(error.response.data.errors)
     ELSE error.message)

\* wise.ts:131
TransferErrorMessage(error) == TXT_TransferPrefix \o DataMessageOrMessage(error)

\* wise.ts:146
FundErrorMessage(error) == TXT_FundPrefix \o DataMessageOrMessage(error)

\* wise.ts:309: the funding failure sendMoney swallows
FundingErrorSwallowed(message) ==
  includes(message, TXT_403) \/ includes(message, TXT_forbidden)

\* the answers to POST /v2/quotes the model draws from: the provider's own
\* rate, with or without a provider fee taken out of the source amount
Quotes(sourceAmount, t) ==
  { [id |-> "quote-uuid", rate |-> 174, fee |-> 0,
     targetAmount |-> sourceAmount * 174],
    [id |-> "quote-uuid", rate |-> 174, fee |-> 100,
     targetAmount |-> (sourceAmount - 100) * 174,
     estimatedDelivery |-> t + CACHE_DURATION] }

\* the transfer statuses the provider answers POST /v1/transfers with
WiseStatuses == { "incoming_payment_waiting", "processing" }

\* wise.ts:212-276, the recipient type and details for a currency
RecipientRequest(params) ==
  LET cur == params.targetCurrency
      type == IF cur = "MXN" THEN "mexican"
              ELSE IF cur = "BRL" THEN "brazilian"
              ELSE IF cur = "GBP" THEN "sort_code"
              ELSE IF cur = "EUR" THEN "iban"
              ELSE IF cur = "COP" THEN "colombia"
              ELSE "sort_code"
      details ==
        IF cur = "MXN" THEN [legalType |-> "PRIVATE", clabe |-> params.recipientBankAccount]
        ELSE IF cur = "BRL" THEN
          [legalType |-> "PRIVATE", cpf |-> params.recipientBankCode,
           accountNumber |-> params.recipientBankAccount,
           accountType |-> "checking", bankCode |-> "001"]
        ELSE IF cur = "GBP" THEN
          [legalType |-> "PRIVATE", sortCode |-> params.recipientBankCode,
           accountNumber |-> params.recipientBankAccount]
        ELSE IF cur = "EUR" THEN [legalType |-> "PRIVATE", iban |-> params.recipientBankAccount]
        ELSE IF cur = "COP" THEN
          [legalType |-> "PRIVATE", bankCode |-> "COLOCOBM",
           accountNumber |-> params.recipientBankAccount, accountType |-> "SAVINGS",
           idDocumentType |-> "CC", address |-> [country |-> "CO"]]
        ELSE [legalType |-> "PRIVATE", accountNumber |-> params.recipientBankAccount,
              bankCode |-> params.recipientBankCode]
  IN [currency |-> cur, type |-> type,
      accountHolderName |-> params.recipientName, details |-> details]

\* a simulation that reports a failed transfer
simulateMyBambuTransferFailing(status, t) ==
  [success |-> FALSE, mybambuTransferId |-> << "BAMBU", t >>, status |-> "failed",
   estimatedDelivery |-> t + 35 * 60 * 1000]

\* server.ts:148-160; the random suffix of mybambuTransferId is left out
simulateMyBambuTransfer(status, t) ==
  [success |-> TRUE, mybambuTransferId |-> << "BAMBU", t >>, status |-> status,
   estimatedDelivery |-> t + 35 * 60 * 1000]

-----------------------------------------------------------------------------
(* TransferOrchestrator: send_money, server.ts:2435-2643 *)

cacheVars == << exchangeRatesCache, lastFetchTime >>
recipientVars == << recipients, recipientOrder, recipientCounter >>
scheduleVars == << scheduledTransfers, scheduledOrder, scheduledCounter >>
transferVars == << transfers, transferOrder, transferCounter >>

\* a string argument read as a condition: undefined and "" are both falsy
Truthy(args, key) == Has(args, key) /\ args[key] # << >>

\* server.ts:2440: rawArgs.to_country || rawArgs.recipient_country
ToCountry(args) ==
  IF Truthy(args, "to_country") THEN args.to_country
  ELSE IF Has(args, "recipient_country") THEN args.recipient_country
  ELSE << >>

\* server.ts:2454: !amount || amount <= 0
AmountNotPositive(args) == ~Has(args, "amount") \/ args.amount = 0 \/ args.amount <= 0

\* a variant of AmountOverLimit with no per-transaction limit, for C2
AmountOverLimitIgnored(args) == FALSE

\* server.ts:2464
AmountOverLimit(args) == args.amount > perTransaction

\* server.ts:2504-2510
SendMoneyLocals(amount, rate, counter) ==
  LET feeAmount == ClampedFee(amount)
      netAmount == amount - feeAmount
  IN [rate |-> rate, feeAmount |-> feeAmount, netAmount |-> netAmount,
      recipientAmount |-> netAmount * rate, transferId |-> TransferId(counter)]

\* server.ts:2521-2529, the parameters handed to WiseService.sendMoney
WiseParams(c) ==
  [amount |-> c.netAmount, recipientName |-> c.args.recipient_name,
   recipientCountry |-> c.corridor.country, recipientBankAccount |-> "1234567890",
   recipientBankCode |-> "BANK001", targetCurrency |-> c.corridor.currency]

\* wise.ts:317-327
WiseResult(c) ==
  [transferId |-> c.transfer.id, status |-> c.transfer.status, amount |-> c.params.amount,
   targetAmount |-> c.quote.targetAmount, rate |-> c.quote.rate, fee |-> c.quote.fee,
   recipientName |-> c.params.recipientName, recipientCountry |-> c.params.recipientCountry]
  @@ (IF Has(c.quote, "estimatedDelivery")
      THEN [estimatedDelivery |-> c.quote.estimatedDelivery] ELSE << >>)

\* a variant of RealTransferRecord that stores the provider's status as it
\* came, for C38
RealTransferRecordProviderStatus(c, wiseResult, t) ==
  [id |-> c.transferId,
   wise_transfer_id |-> wiseResult.transferId,
   mybambu_id |-> TXT_WISE \o NumberToString(wiseResult.transferId),
   from_currency |-> "USD",
   to_currency |-> c.corridor.currency,
   amount |-> c.args.amount,
   fee |-> c.feeAmount,
   net_amount |-> c.netAmount,
   exchange_rate |-> wiseResult.rate,
   recipient_amount |-> wiseResult.targetAmount,
   recipient_name |-> c.args.recipient_name,
   recipient_country |-> c.corridor.country,
   delivery_time |-> c.corridor.deliveryTime,
   status |-> wiseResult.status,
   estimated_arrival |-> IF Has(wiseResult, "estimatedDelivery")
                         THEN wiseResult.estimatedDelivery
                         ELSE t + 2 * 60 * 60 * 1000,
   created_at |-> t,
   is_real_transfer |-> TRUE]

\* server.ts:2532-2550
RealTransferRecord(c, wiseResult, t) ==
  [id |-> c.transferId,
   wise_transfer_id |-> wiseResult.transferId,
   mybambu_id |-> TXT_WISE \o NumberToString(wiseResult.transferId),
   from_currency |-> "USD",
   to_currency |-> c.corridor.currency,
   amount |-> c.args.amount,
   fee |-> c.feeAmount,
   net_amount |-> c.netAmount,
   exchange_rate |-> wiseResult.rate,
   recipient_amount |-> wiseResult.targetAmount,
   recipient_name |-> c.args.recipient_name,
   recipient_country |-> c.corridor.country,
   delivery_time |-> c.corridor.deliveryTime,
   status |-> IF wiseResult.status = "processing" THEN "processing" ELSE "completed",
   estimated_arrival |-> IF Has(wiseResult, "estimatedDelivery")
                         THEN wiseResult.estimatedDelivery
                         ELSE t + 2 * 60 * 60 * 1000,
   created_at |-> t,
   is_real_transfer |-> TRUE]

\* server.ts:2601-2618
DemoTransferRecord(c, mybambuResponse, t) ==
  [id |-> c.transferId,
   mybambu_id |-> mybambuResponse.mybambuTransferId,
   from_currency |-> "USD",
   to_currency |-> c.corridor.currency,
   amount |-> c.args.amount,
   fee |-> c.feeAmount,
   net_amount |-> c.netAmount,
   exchange_rate |-> c.rate,
   recipient_amount |-> c.recipientAmount,
   recipient_name |-> c.args.recipient_name,
   recipient_country |-> c.corridor.country,
   delivery_time |-> c.corridor.deliveryTime,
   status |-> mybambuResponse.status,
   estimated_arrival |-> mybambuResponse.estimatedDelivery,
   created_at |-> t,
   is_real_transfer |-> FALSE]

\* a variant of ErrorNote that drops the error's message, for C8
ErrorNoteWithoutText(message) == TXT_WiseFailed \o TXT_UsingSimulation

\* server.ts:2588
ErrorNote(message) == TXT_WiseFailed \o message \o TXT_UsingSimulation

\* server.ts:2571-2589
FallbackTransferRecord(c, mybambuResponse, message, t) ==
  DemoTransferRecord(c, mybambuResponse, t) @@ [error_note |-> ErrorNote(message)]

\* server.ts:2633-2640
FeeBreakdown(c) ==
  [baseAmount |-> c.args.amount, feePercentage |-> standard, feeAmount |-> c.feeAmount,
   netAmount |-> c.netAmount, exchangeRate |-> c.rate, finalAmount |-> c.recipientAmount]

\* server.ts:2621-2642: store the record and answer
SendMoneyReturn(old, c, record, path, ghost) ==
  /\ StoreTransfer(record)
  /\ Finish(old)
  /\ response' = [op |-> "send_money", ret |-> "ok", path |-> path, id |-> record.id,
                  args |-> c.args, announced |-> c.recipientAmount,
                  feeBreakdown |-> FeeBreakdown(c)] @@ ghost

\* server.ts:2561-2590: the catch around the provider sequence
SendMoneyFallback(old, c, message, ghost) ==
  \E s \in 1..Len(Statuses) :
    SendMoneyReturn(old, c,
      FallbackTransferRecord(c, simulateMyBambuTransfer(Statuses[s], now), message, now),
      "fallback", [thrown |-> message] @@ ghost)

\* a variant of RateRejection that has already taken the identifier, for C4
RateRejectionAfterIdentifier(old, c) ==
  /\ response' = [op |-> "send_money", ret |-> "error", kind |-> "rate_unavailable",
                  args |-> c.args, currency |-> c.corridor.currency]
  /\ Finish(old)
  /\ transferCounter' = transferCounter + 1
  /\ UNCHANGED << transfers, transferOrder, wiseTransfers >>

\* server.ts:2493-2501
RateRejection(old, c) ==
  /\ response' = [op |-> "send_money", ret |-> "error", kind |-> "rate_unavailable",
                  args |-> c.args, currency |-> c.corridor.currency]
  /\ Finish(old)
  /\ UNCHANGED << transferVars, wiseTransfers >>

\* server.ts:2491-2619, from the rate snapshot to the first provider call
SendMoneyWithRates(old, c, rateData) ==
  IF ~RateAvailable(rateData, c.corridor.currency)
  THEN RateRejection(old, c)
  ELSE LET c2 == SendMoneyLocals(c.args.amount, rateData.rates[c.corridor.currency],
                                 transferCounter) @@ c
           c3 == [params |-> WiseParams(c2)] @@ c2
       IN /\ transferCounter' = transferCounter + 1
          /\ IF useRealAPI
             THEN \* wise.ts:199: POST /v2/quotes
                  /\ Park(old, [c3 EXCEPT !.pc = "quote"])
                  /\ response' = None
                  /\ UNCHANGED << transfers, transferOrder, wiseTransfers >>
             ELSE /\ \E s \in 1..Len(Statuses) :
                       SendMoneyReturn(old, c2,
                         DemoTransferRecord(c2, simulateMyBambuTransfer(Statuses[s], now),
                                            now),
                         "demo", << >>)
                  /\ UNCHANGED wiseTransfers

SendMoneyError(kind, args, payload) ==
  /\ response' = [op |-> "send_money", ret |-> "error", kind |-> kind, args |-> args]
                 @@ payload
  /\ UNCHANGED << cacheVars, transferVars, wiseTransfers, calls >>

\* server.ts:2435-2490: validation, then fetchExchangeRates (server.ts:115-123)
SendMoney(args) ==
  /\ response = None
  /\ IF ToCountry(args) = << >> \/ ~Truthy(args, "recipient_name")
     THEN SendMoneyError("missing_parameters", args, << >>)
     ELSE IF AmountNotPositive(args)
     THEN SendMoneyError("amount_not_positive", args, << >>)
     ELSE IF AmountOverLimit(args)
     THEN SendMoneyError("amount_over_limit", args, [limit |-> perTransaction])
     ELSE IF FindCorridor(ToCountry(args)) = 0
     THEN SendMoneyError("unsupported_country", args, [supported |-> SupportedCountries])
     ELSE LET c == [op |-> "send_money", pc |-> "rates", args |-> args, fnow |-> now,
                    corridor |-> SUPPORTED_CORRIDORS[FindCorridor(ToCountry(args))]]
          IN /\ IdentifierLeft
             /\ ProviderRunLeft
             /\ IF CacheFresh(now)
                THEN /\ SendMoneyWithRates(New, c, exchangeRatesCache)
                     /\ UNCHANGED cacheVars
                ELSE \* server.ts:123: the fetch is issued and awaited
                     /\ Park(New, c)
                     /\ response' = None
                     /\ UNCHANGED << cacheVars, transferVars, wiseTransfers >>
  /\ UNCHANGED << now, useRealAPI, scheduleVars, recipientVars >>

\* a variant of FetchReturns whose successful branch writes the snapshot and
\* not its time, for C17
FetchReturnsWithoutTime(c, rateData) ==
  \/ \E table \in LiveTables :
       /\ exchangeRatesCache' = Snapshot(table)
       /\ lastFetchTime' = lastFetchTime
       /\ rateData = Snapshot(table)
  \/ /\ rateData = CacheOrFallback(now)
     /\ UNCHANGED cacheVars

\* a variant of FetchReturns whose failing branch stores what it returns as
\* the cache, with the time of the call, for C33
FetchReturnsCachingFallback(c, rateData) ==
  \/ \E table \in LiveTables :
       /\ exchangeRatesCache' = Snapshot(table)
       /\ lastFetchTime' = c.fnow
       /\ rateData = Snapshot(table)
  \/ /\ rateData = CacheOrFallback(now)
     /\ exchangeRatesCache' = CacheOrFallback(now)
     /\ lastFetchTime' = c.fnow

\* server.ts:124-144: the awaited fetch of invocation c answers; rateData is
\* what fetchExchangeRates returns to its caller
FetchReturns(c, rateData) ==
  \/ \E table \in LiveTables :
       /\ exchangeRatesCache' = Snapshot(table)
       /\ lastFetchTime' = c.fnow
       /\ rateData = Snapshot(table)
  \/ /\ rateData = CacheOrFallback(now)
     /\ UNCHANGED cacheVars

RateDataValues == { Snapshot(table) : table \in LiveTables } \cup { CacheOrFallback(now) }

\* invocation c of op waits at the await named pc
Waiting(c, op, pc) == response = None /\ c.op = op /\ c.pc = pc

\* server.ts:2490: send_money resumes after await fetchExchangeRates()
SendMoneyRates(c) ==
  /\ Waiting(c, "send_money", "rates")
  /\ \E rateData \in RateDataValues :
       /\ FetchReturns(c, rateData)
       /\ SendMoneyWithRates(SetToBag({c}), c, rateData)
  /\ UNCHANGED << now, useRealAPI, scheduleVars, recipientVars >>

\* a variant of SendMoneyQuote that goes on to the transfer without a
\* recipient, for C11
SendMoneyQuoteSkipping(c) ==
  /\ Waiting(c, "send_money", "quote")
  /\ \E quote \in Quotes(c.params.amount, now) :
       /\ Park(SetToBag({c}), [quote |-> quote] @@ [c EXCEPT !.pc = "transfer"])
       /\ response' = None
       /\ UNCHANGED << transfers, transferOrder >>
  /\ UNCHANGED << now, useRealAPI, scheduleVars, cacheVars, transferCounter, recipientVars, wiseTransfers >>

\* wise.ts:199-203 and 61-75: POST /v2/quotes answers
SendMoneyQuote(c) ==
  /\ Waiting(c, "send_money", "quote")
  /\ \/ \E quote \in Quotes(c.params.amount, now) :
          \* wise.ts:278: POST /v1/accounts
          /\ Park(SetToBag({c}), [quote |-> quote, request |-> RecipientRequest(c.params)]
                                 @@ [c EXCEPT !.pc = "recipient"])
          /\ response' = None
          /\ UNCHANGED << transfers, transferOrder >>
     \/ \E error \in ProviderFailures :
          SendMoneyFallback(SetToBag({c}), c, QuoteErrorMessage(error), [failed |-> "quote"])
  /\ UNCHANGED << now, useRealAPI, scheduleVars, cacheVars, transferCounter, recipientVars, wiseTransfers >>

\* wise.ts:278-283 and 80-106: POST /v1/accounts answers
SendMoneyRecipient(c) ==
  /\ Waiting(c, "send_money", "recipient")
  /\ \/ \* wise.ts:288: POST /v1/transfers
        /\ Park(SetToBag({c}), [recipient |-> [id |-> 700]] @@ [c EXCEPT !.pc = "transfer"])
        /\ response' = None
        /\ UNCHANGED << transfers, transferOrder >>
     \/ \E error \in ProviderFailures :
          SendMoneyFallback(SetToBag({c}), c, RecipientErrorMessage(error),
                            [failed |-> "recipient"])
  /\ UNCHANGED << now, useRealAPI, scheduleVars, cacheVars, transferCounter, recipientVars, wiseTransfers >>

\* wise.ts:288-296 and 111-133: POST /v1/transfers answers
SendMoneyTransfer(c) ==
  /\ Waiting(c, "send_money", "transfer")
  /\ \/ \E status \in WiseStatuses :
          LET transfer == [id |-> 900 + Len(wiseTransfers) + 1, status |-> status] IN
          \* wise.ts:306: POST .../payments
          /\ wiseTransfers' = Append(wiseTransfers, transfer @@ [funded |-> FALSE])
          /\ Park(SetToBag({c}), [transfer |-> transfer] @@ [c EXCEPT !.pc = "fund"])
          /\ response' = None
          /\ UNCHANGED << transfers, transferOrder >>
     \/ \E error \in ProviderFailures :
          /\ SendMoneyFallback(SetToBag({c}), c, TransferErrorMessage(error),
                               [failed |-> "transfer"])
          /\ UNCHANGED wiseTransfers
  /\ UNCHANGED << now, useRealAPI, scheduleVars, cacheVars, transferCounter, recipientVars >>

\* wise.ts:304-327 and 138-148: the funding call answers
SendMoneyFund(c) ==
  /\ Waiting(c, "send_money", "fund")
  /\ LET record == RealTransferRecord(c, WiseResult(c), now)
         ghost == [wiseTransferId |-> c.transfer.id, wiseStatus |-> c.transfer.status]
     IN
     \/ /\ wiseTransfers' =
             [k \in 1..Len(wiseTransfers) |->
                IF wiseTransfers[k].id = c.transfer.id
                THEN [wiseTransfers[k] EXCEPT !.funded = TRUE] ELSE wiseTransfers[k]]
        /\ SendMoneyReturn(SetToBag({c}), c, record, "real", ghost)
     \/ \E error \in FundingFailures :
          /\ IF FundingErrorSwallowed(FundErrorMessage(error))
             THEN SendMoneyReturn(SetToBag({c}), c, record, "real",
                                  [fundError |-> error] @@ ghost)
             ELSE SendMoneyFallback(SetToBag({c}), c, FundErrorMessage(error),
                                    [failed |-> "fund", fundError |-> error] @@ ghost)
          /\ UNCHANGED wiseTransfers
  /\ UNCHANGED << now, useRealAPI, scheduleVars, cacheVars, transferCounter, recipientVars >>

-----------------------------------------------------------------------------
(* check_transfer_status, server.ts:2691-2727 *)

\* a variant of NextStatus that jumps to the last status, for C1
NextStatusSkipping(status, coin) ==
  IF coin THEN Statuses[Len(Statuses)] ELSE status

\* server.ts:2707-2711; coin is Math.random() > 0.5
NextStatus(status, coin) ==
  LET currentIndex == indexOf(Statuses, status) IN
  IF currentIndex < Len(Statuses) - 1 /\ coin
  THEN Statuses[(currentIndex + 1) + 1]
  ELSE status

CheckTransferStatus(transfer_id, coin) ==
  /\ response = None
  /\ IF transfer_id \notin DOMAIN transfers
     THEN /\ response' = [op |-> "check_transfer_status", ret |-> "error",
                          kind |-> "not_found", id |-> transfer_id]
          /\ UNCHANGED transfers
     ELSE /\ transfers' = [transfers EXCEPT
                             ![transfer_id].status = NextStatus(@, coin)]
          /\ response' = [op |-> "check_transfer_status", ret |-> "ok", id |-> transfer_id,
                          before |-> transfers[transfer_id].status]
  /\ UNCHANGED << now, useRealAPI, scheduleVars, cacheVars, transferOrder, transferCounter,
                  recipientVars, wiseTransfers, calls >>

-----------------------------------------------------------------------------
(* send_again, server.ts:3106-3180 *)

\* t.recipient_name.toLowerCase().includes(name.toLowerCase())
NameMatches(stored, name) == includes(toLowerCase(stored), toLowerCase(name))

Position(order, id) == CHOOSE k \in 1..Len(order) : order[k] = id

\* server.ts:3110-3111: a comes before b in Array.from(transfers.values())
\* sorted by created_at, newest first; the sort is stable
SortsBefore(a, b) ==
  \/ transfers[a].created_at > transfers[b].created_at
  \/ /\ transfers[a].created_at = transfers[b].created_at
     /\ Position(transferOrder, a) < Position(transferOrder, b)

\* a variant of SendAgainCandidates that falls back to every transfer when the
\* name matches none, for C14
SendAgainCandidatesOrAny(args) ==
  IF Truthy(args, "recipient_name")
     /\ \E id \in DOMAIN transfers :
          NameMatches(transfers[id].recipient_name, args.recipient_name)
  THEN { id \in DOMAIN transfers :
           NameMatches(transfers[id].recipient_name, args.recipient_name) }
  ELSE DOMAIN transfers

\* server.ts:3113-3120: the candidates for lastTransfer
SendAgainCandidates(args) ==
  IF Truthy(args, "recipient_name")
  THEN { id \in DOMAIN transfers :
           NameMatches(transfers[id].recipient_name, args.recipient_name) }
  ELSE DOMAIN transfers

\* allTransfers.find(...) or allTransfers[0]
LastTransfer(args) ==
  transfers[CHOOSE a \in SendAgainCandidates(args) :
              \A b \in SendAgainCandidates(args) \ {a} : SortsBefore(a, b)]

\* a variant of SendAgainRecord that repeats the original's rate, for C13
SendAgainRecordOldRate(c, rateData, t) ==
  [id |-> c.transferId,
   mybambu_id |-> << "BAMBU", c.fnow >>,
   from_currency |-> "USD",
   to_currency |-> c.corridor.currency,
   amount |-> c.lastTransfer.amount,
   fee |-> c.lastTransfer.fee,
   net_amount |-> c.lastTransfer.amount - c.lastTransfer.fee,
   recipient_name |-> c.lastTransfer.recipient_name,
   recipient_country |-> c.lastTransfer.recipient_country,
   delivery_time |-> c.corridor.deliveryTime,
   status |-> "completed",
   estimated_arrival |-> t + 2 * 60 * 60 * 1000,
   created_at |-> t]
  @@ (IF Has(c.lastTransfer, "exchange_rate")
      THEN [exchange_rate |-> c.lastTransfer.exchange_rate,
            recipient_amount |-> (c.lastTransfer.amount - c.lastTransfer.fee)
                                 * c.lastTransfer.exchange_rate]
      ELSE << >>)

\* server.ts:3148-3164; a rate that is undefined and the NaN amount computed
\* from it are missing keys
SendAgainRecord(c, rateData, t) ==
  LET corridor == c.corridor
      feeAmount == c.lastTransfer.fee
      netAmount == c.lastTransfer.amount - feeAmount
  IN [id |-> c.transferId,
      mybambu_id |-> << "BAMBU", c.fnow >>,
      from_currency |-> "USD",
      to_currency |-> corridor.currency,
      amount |-> c.lastTransfer.amount,
      fee |-> feeAmount,
      net_amount |-> netAmount,
      recipient_name |-> c.lastTransfer.recipient_name,
      recipient_country |-> c.lastTransfer.recipient_country,
      delivery_time |-> corridor.deliveryTime,
      status |-> "completed",
      estimated_arrival |-> t + 2 * 60 * 60 * 1000,
      created_at |-> t]
     @@ (IF Has(rateData.rates, corridor.currency)
         THEN [exchange_rate |-> rateData.rates[corridor.currency],
               recipient_amount |-> netAmount * rateData.rates[corridor.currency]]
         ELSE << >>)

\* server.ts:3143-3179
SendAgainWithRates(old, c, rateData) ==
  /\ StoreTransfer(SendAgainRecord(c, rateData, now))
  /\ Finish(old)
  /\ response' = [op |-> "send_again", ret |-> "ok", id |-> c.transferId, args |-> c.args,
                  originalTransferId |-> c.lastTransfer.id]

\* server.ts:3106-3142
SendAgain(args) ==
  /\ response = None
  /\ IF SendAgainCandidates(args) = {}
     THEN /\ response' = [op |-> "send_again", ret |-> "error", kind |-> "no_previous",
                          args |-> args]
          /\ UNCHANGED << cacheVars, transferVars, calls >>
     ELSE LET lastTransfer == LastTransfer(args)
              c == [op |-> "send_again", pc |-> "rates", args |-> args, fnow |-> now,
                    transferId |-> TransferId(transferCounter),
                    lastTransfer |-> lastTransfer,
                    corridor |-> SUPPORTED_CORRIDORS[FindCorridor(lastTransfer.recipient_country)]]
          IN /\ IdentifierLeft
             /\ transferCounter' = transferCounter + 1
             /\ IF CacheFresh(now)
                THEN /\ SendAgainWithRates(New, c, exchangeRatesCache)
                     /\ UNCHANGED cacheVars
                ELSE /\ Park(New, c)
                     /\ response' = None
                     /\ UNCHANGED << cacheVars, transfers, transferOrder >>
  /\ UNCHANGED << now, useRealAPI, scheduleVars, recipientVars, wiseTransfers >>

\* server.ts:3142: send_again resumes after await fetchExchangeRates()
SendAgainRates(c) ==
  /\ Waiting(c, "send_again", "rates")
  /\ \E rateData \in RateDataValues :
       /\ FetchReturns(c, rateData)
       /\ SendAgainWithRates(SetToBag({c}), c, rateData)
  /\ UNCHANGED << now, useRealAPI, scheduleVars, transferCounter, recipientVars, wiseTransfers >>

-----------------------------------------------------------------------------
(* Recipients: add_recipient, delete_recipient, server.ts:2800-2935 *)

\* `RCP-${n}`
RecipientId(n) == TXT_RCP \o NumberToString(n)

\* server.ts:2800-2859
AddRecipient(args) ==
  /\ response = None
  /\ IF ~Truthy(args, "name") \/ ~Truthy(args, "country")
     THEN /\ response' = [op |-> "add_recipient", ret |-> "error",
                          kind |-> "missing_parameters"]
          /\ UNCHANGED recipientVars
     ELSE IF FindCorridor(args.country) = 0
     THEN /\ response' = [op |-> "add_recipient", ret |-> "error",
                          kind |-> "unsupported_country"]
          /\ UNCHANGED recipientVars
     ELSE LET corridor == SUPPORTED_CORRIDORS[FindCorridor(args.country)]
              recipientId == RecipientId(recipientCounter)
              recipient == [id |-> recipientId, name |-> args.name,
                            country |-> corridor.country, currency |-> corridor.currency,
                            relationship |-> "Other", created_at |-> now,
                            total_sent |-> 0, transfer_count |-> 0]
          IN /\ recipientCounter < InitialRecipientCounter + MaxRecipients
             /\ recipientCounter' = recipientCounter + 1
             /\ recipients' = (recipientId :> recipient) @@ recipients
             /\ recipientOrder' = Append(recipientOrder, recipientId)
             /\ response' = [op |-> "add_recipient", ret |-> "ok", id |-> recipientId]
  /\ UNCHANGED << now, useRealAPI, scheduleVars, cacheVars, transferVars, wiseTransfers, calls >>

\* Map.prototype.delete
Without(map, key) == [k \in DOMAIN map \ {key} |-> map[k]]

\* a delete_recipient that also drops the transfers sent to the recipient's country
DeleteRecipientCascading(recipient_id) ==
  /\ response = None
  /\ IF recipient_id \notin DOMAIN recipients
     THEN /\ response' = [op |-> "delete_recipient", ret |-> "error", kind |-> "not_found",
                          id |-> recipient_id]
          /\ UNCHANGED << recipientVars, transfers, transferOrder >>
     ELSE /\ recipients' = Without(recipients, recipient_id)
          /\ recipientOrder' = SelectSeq(recipientOrder, LAMBDA id : id # recipient_id)
          /\ transferOrder' =
               SelectSeq(transferOrder,
                         LAMBDA id : transfers[id].recipient_country
                                       # recipients[recipient_id].country)
          /\ transfers' =
               [id \in { i \in DOMAIN transfers :
                           transfers[i].recipient_country # recipients[recipient_id].country }
                  |-> transfers[id]]
          /\ response' = [op |-> "delete_recipient", ret |-> "ok", id |-> recipient_id,
                          remainingRecipients |-> Cardinality(DOMAIN recipients) - 1]
          /\ UNCHANGED recipientCounter
  /\ UNCHANGED << now, useRealAPI, scheduleVars, cacheVars, transferCounter, wiseTransfers,
                  calls >>

\* server.ts:2902-2935
DeleteRecipient(recipient_id) ==
  /\ response = None
  /\ IF recipient_id \notin DOMAIN recipients
     THEN /\ response' = [op |-> "delete_recipient", ret |-> "error", kind |-> "not_found",
                          id |-> recipient_id]
          /\ UNCHANGED recipientVars
     ELSE /\ recipients' = Without(recipients, recipient_id)
          /\ recipientOrder' = SelectSeq(recipientOrder, LAMBDA id : id # recipient_id)
          /\ response' = [op |-> "delete_recipient", ret |-> "ok", id |-> recipient_id,
                          remainingRecipients |-> Cardinality(DOMAIN recipients) - 1]
          /\ UNCHANGED recipientCounter
  /\ UNCHANGED << now, useRealAPI, scheduleVars, cacheVars, transferVars, wiseTransfers, calls >>

-----------------------------------------------------------------------------
(* quick_send, server.ts:3183-3267 *)

\* Array.prototype.find over hits, the positions that satisfy the predicate:
\* the first one, 0 if none
First(hits) == IF hits = {} THEN 0 ELSE CHOOSE k \in hits : \A j \in hits : k <= j

\* server.ts:3187-3189: the position of savedRecipient in insertion order
SavedRecipient(name) ==
  First({ k \in 1..Len(recipientOrder) :
            NameMatches(recipients[recipientOrder[k]].name, name) })

\* server.ts:3191-3193: the position of pastTransfer in insertion order
PastTransfer(name) ==
  First({ k \in 1..Len(transferOrder) :
            NameMatches(transfers[transferOrder[k]].recipient_name, name) })

\* server.ts:3230-3246
QuickSendRecord(c, rateData, t) ==
  LET amount == c.args.amount
      feeAmount == PercentageFee(amount)
      netAmount == amount - feeAmount
  IN [id |-> c.transferId,
      mybambu_id |-> << "BAMBU", c.fnow >>,
      from_currency |-> "USD",
      to_currency |-> c.corridor.currency,
      amount |-> amount,
      fee |-> feeAmount,
      net_amount |-> netAmount,
      recipient_name |-> c.args.recipient_name,
      recipient_country |-> c.corridor.country,
      delivery_time |-> c.corridor.deliveryTime,
      status |-> "completed",
      estimated_arrival |-> t + 2 * 60 * 60 * 1000,
      created_at |-> t]
     @@ (IF Has(rateData.rates, c.corridor.currency)
         THEN [exchange_rate |-> rateData.rates[c.corridor.currency],
               recipient_amount |-> netAmount * rateData.rates[c.corridor.currency]]
         ELSE << >>)

\* A quick_send that puts its saved recipient back into the Map when it is gone
QuickSendWithRatesRestoring(old, c, rateData) ==
  /\ StoreTransfer(QuickSendRecord(c, rateData, now))
  /\ recipients' =
       IF c.savedRecipient \in DOMAIN recipients
       THEN [recipients EXCEPT
               ![c.savedRecipient].total_sent = @ + c.args.amount,
               ![c.savedRecipient].transfer_count = @ + 1]
       ELSE IF c.savedRecipient # << >>
       THEN (c.savedRecipient :>
               [id |-> c.savedRecipient, name |-> c.args.recipient_name,
                country |-> c.corridor.country, currency |-> c.corridor.currency,
                relationship |-> "Other", created_at |-> c.fnow,
                total_sent |-> c.args.amount, transfer_count |-> 1]) @@ recipients
       ELSE recipients
  /\ Finish(old)
  /\ response' = [op |-> "quick_send", ret |-> "ok", id |-> c.transferId, args |-> c.args]

\* A quick_send that counts the transfer twice on the saved recipient
QuickSendWithRatesCountingTwice(old, c, rateData) ==
  /\ StoreTransfer(QuickSendRecord(c, rateData, now))
  /\ recipients' =
       IF c.savedRecipient \in DOMAIN recipients
       THEN [recipients EXCEPT
               ![c.savedRecipient].total_sent = @ + c.args.amount,
               ![c.savedRecipient].transfer_count = @ + 2]
       ELSE recipients
  /\ Finish(old)
  /\ response' = [op |-> "quick_send", ret |-> "ok", id |-> c.transferId, args |-> c.args]

\* server.ts:3224-3266; savedRecipient is the object found before the await:
\* it is updated whether or not it is still in the Map
QuickSendWithRates(old, c, rateData) ==
  /\ StoreTransfer(QuickSendRecord(c, rateData, now))
  /\ recipients' =
       IF c.savedRecipient \in DOMAIN recipients
       THEN [recipients EXCEPT
               ![c.savedRecipient].total_sent = @ + c.args.amount,
               ![c.savedRecipient].transfer_count = @ + 1]
       ELSE recipients
  /\ Finish(old)
  /\ response' = [op |-> "quick_send", ret |-> "ok", id |-> c.transferId, args |-> c.args]

\* server.ts:3183-3224
QuickSend(args) ==
  /\ response = None
  /\ LET r == SavedRecipient(args.recipient_name)
         p == PastTransfer(args.recipient_name)
         targetCountry == IF r # 0 THEN recipients[recipientOrder[r]].country
                          ELSE IF p # 0 THEN transfers[transferOrder[p]].recipient_country
                          ELSE << >>
     IN IF targetCountry = << >>
        THEN /\ response' = [op |-> "quick_send", ret |-> "error", kind |-> "unknown_recipient",
                             args |-> args]
             /\ UNCHANGED << cacheVars, transferVars, recipients, calls >>
        ELSE IF FindCorridor(targetCountry) = 0
        THEN /\ response' = [op |-> "quick_send", ret |-> "error",
                             kind |-> "unsupported_country", args |-> args]
             /\ UNCHANGED << cacheVars, transferVars, recipients, calls >>
        ELSE LET c == [op |-> "quick_send", pc |-> "rates", args |-> args, fnow |-> now,
                       transferId |-> TransferId(transferCounter),
                       savedRecipient |-> IF r # 0 THEN recipientOrder[r] ELSE << >>,
                       corridor |-> SUPPORTED_CORRIDORS[FindCorridor(targetCountry)]]
             IN /\ IdentifierLeft
                /\ transferCounter' = transferCounter + 1
                /\ IF CacheFresh(now)
                   THEN /\ QuickSendWithRates(New, c, exchangeRatesCache)
                        /\ UNCHANGED cacheVars
                   ELSE /\ Park(New, c)
                        /\ response' = None
                        /\ UNCHANGED << cacheVars, transfers, transferOrder, recipients >>
  /\ UNCHANGED << now, useRealAPI, scheduleVars, recipientOrder, recipientCounter, wiseTransfers >>

\* server.ts:3224: quick_send resumes after await fetchExchangeRates()
QuickSendRates(c) ==
  /\ Waiting(c, "quick_send", "rates")
  /\ \E rateData \in RateDataValues :
       /\ FetchReturns(c, rateData)
       /\ QuickSendWithRates(SetToBag({c}), c, rateData)
  /\ UNCHANGED << now, useRealAPI, scheduleVars, transferCounter, recipientOrder, recipientCounter,
                  wiseTransfers >>

-----------------------------------------------------------------------------
(* The transport and the clock *)

\* the response goes out to the client
Deliver ==
  /\ response # None
  /\ response' = None
  /\ UNCHANGED << now, useRealAPI, scheduleVars, cacheVars, transferVars, recipientVars,
                  wiseTransfers, calls >>

StartTime == 2 * CACHE_DURATION

\* a variant of Tick with an executor: as the clock advances every active
\* schedule is counted as executed once more, for C32
TickExecuting ==
  /\ response = None
  /\ now < StartTime + MaxTicks * CACHE_DURATION
  /\ now' = now + CACHE_DURATION
  /\ scheduledTransfers' =
       [id \in DOMAIN scheduledTransfers |->
          IF scheduledTransfers[id].status = "active"
          THEN [scheduledTransfers[id] EXCEPT !.execution_count = @ + 1]
          ELSE scheduledTransfers[id]]
  /\ UNCHANGED << useRealAPI, scheduledOrder, scheduledCounter, cacheVars, transferVars,
                  recipientVars, wiseTransfers, calls, response >>

Tick ==
  /\ response = None
  /\ now < StartTime + MaxTicks * CACHE_DURATION
  /\ now' = now + CACHE_DURATION
  /\ UNCHANGED << useRealAPI, scheduleVars, cacheVars, transferVars, recipientVars, wiseTransfers,
                  calls, response >>

-----------------------------------------------------------------------------
(* Scheduled transfers, server.ts:2938-3103.  A time value is a record of day,
   the whole days since 1970-01-01, and ms, the milliseconds into that day
   (the product does not fit a 32-bit integer); NaN is a record without them.
   A date string is a record: one that Date can parse has the keys day and ms
   of its time value and iso, whether its text is the form toISOString
   writes; one that Date cannot parse has no ms; the empty string is << >>.
   The local time zone of the process is taken to be UTC. *)

MsPerDay == 24 * 60 * 60 * 1000

\* ECMAScript Day(t) and the civil date of it: year, month 1..12, day of month
CivilFromDays(z) ==
  LET s == z + 719468
      era == s \div 146097
      doe == s - era * 146097
      yoe == (doe - doe \div 1460 + doe \div 36524 - doe \div 146096) \div 365
      doy == doe - (365 * yoe + yoe \div 4 - yoe \div 100)
      mp == (5 * doy + 2) \div 153
      m == IF mp < 10 THEN mp + 3 ELSE mp - 9
  IN [y |-> yoe + era * 400 + (IF m <= 2 THEN 1 ELSE 0),
      m |-> m,
      d |-> doy - (153 * mp + 2) \div 5 + 1]

\* the day number of a civil date
DaysFromCivil(year, month, day) ==
  LET y == IF month <= 2 THEN year - 1 ELSE year
      era == y \div 400
      yoe == y - era * 400
      doy == (153 * (IF month > 2 THEN month - 3 ELSE month + 9) + 2) \div 5 + day - 1
      doe == yoe * 365 + yoe \div 4 - yoe \div 100 + doy
  IN era * 146097 + doe - 719468

\* ECMAScript MakeDay(year, month, date), month counted from 0 and of any size:
\* a date past the end of the month runs on into the following one
MakeDay(year, month, date) ==
  DaysFromCivil(year + (month \div 12), (month % 12) + 1, 1) + date - 1

NaN == [nan |-> TRUE]

\* new Date(string)
NewDate(string) ==
  IF Has(string, "ms") THEN [day |-> string.day, ms |-> string.ms] ELSE NaN

\* Date.prototype.toISOString of a valid Date
toISOString(date) == [day |-> date.day, ms |-> date.ms, iso |-> TRUE]

\* Date.prototype.getMonth, 0..11
getMonth(date) == CivilFromDays(date.day).m - 1

\* Date.prototype.setMonth(month): the year and the day of the month are kept
\* and the result is normalised by MakeDay
setMonth(date, month) ==
  LET civil == CivilFromDays(date.day)
  IN [day |-> MakeDay(civil.y, month, civil.d), ms |-> date.ms]

\* new Date(date.getTime() + delta)
PlusMs(date, delta) ==
  [day |-> date.day + ((date.ms + delta) \div MsPerDay),
   ms |-> (date.ms + delta) % MsPerDay]

\* a variant that leaves the date where it is for every frequency
NextExecutionStuck(frequency, currentDate) == currentDate

\* server.ts:170-183: one turn of the switch
NextExecution(frequency, currentDate) ==
  CASE frequency = "weekly" -> PlusMs(currentDate, 7 * 24 * 60 * 60 * 1000)
    [] frequency = "bi-weekly" -> PlusMs(currentDate, 14 * 24 * 60 * 60 * 1000)
    [] frequency = "monthly" -> setMonth(currentDate, getMonth(currentDate) + 1)
    [] frequency = "quarterly" -> setMonth(currentDate, getMonth(currentDate) + 3)
    [] OTHER -> currentDate

RECURSIVE CurrentDateAt(_, _, _)
\* server.ts:165-184: currentDate at the start of turn i of the loop
CurrentDateAt(frequency, startDate, i) ==
  IF i = 0 THEN NewDate(startDate)
  ELSE NextExecution(frequency, CurrentDateAt(frequency, startDate, i - 1))

\* server.ts:168: toISOString throws RangeError on an Invalid Date, in the
\* first turn of the loop
ThrowsRangeError(startDate, count) == count > 0 /\ ~Has(startDate, "ms")

\* server.ts:163-187, for the calls that return
getNextExecutionDates(frequency, startDate, count) ==
  [i \in 1..count |-> toISOString(CurrentDateAt(frequency, startDate, i - 1))]


\* `SCH-${n}`
ScheduleId(n) == TXT_SCH \o NumberToString(n)

\* new Date().toISOString()
NowISO == [day |-> (now \div MsPerDay), ms |-> (now % MsPerDay), iso |-> TRUE]

\* RangeError of Date.prototype.toISOString on an Invalid Date
ValidDate(date) == Has(date, "ms")

\* server.ts:2998: start_date || new Date().toISOString()
StartDate(args) ==
  IF Has(args, "start_date") /\ DOMAIN args.start_date # {}
  THEN args.start_date ELSE NowISO

\* a variant that also takes 'daily'
validFrequenciesWithDaily == { "weekly", "bi-weekly", "monthly", "quarterly", "daily" }

\* server.ts:2977
validFrequencies == { "weekly", "bi-weekly", "monthly", "quarterly" }

\* server.ts:2938-3026; getNextExecutionDates (163-187) begins with
\* new Date(startDate).toISOString(), which throws on an Invalid Date after
\* the schedule has been stored
ScheduleTransfer(args) ==
  /\ response = None
  /\ IF Has(args, "amount") /\ args.amount <= 0
     THEN /\ response' = [op |-> "schedule_transfer", ret |-> "error",
                          kind |-> "amount_not_positive"]
          /\ UNCHANGED scheduleVars
     ELSE IF ~Truthy(args, "to_country") \/ ~Truthy(args, "recipient_name")
     THEN /\ response' = [op |-> "schedule_transfer", ret |-> "error",
                          kind |-> "missing_parameters"]
          /\ UNCHANGED scheduleVars
     ELSE IF FindCorridor(args.to_country) = 0
     THEN /\ response' = [op |-> "schedule_transfer", ret |-> "error",
                          kind |-> "unsupported_country"]
          /\ UNCHANGED scheduleVars
     ELSE IF ~Has(args, "frequency") \/ args.frequency \notin validFrequencies
     THEN /\ response' = [op |-> "schedule_transfer", ret |-> "error",
                          kind |-> "invalid_frequency"]
          /\ UNCHANGED scheduleVars
     ELSE LET corridor == SUPPORTED_CORRIDORS[FindCorridor(args.to_country)]
              scheduleId == ScheduleId(scheduledCounter)
              scheduledTransfer ==
                [id |-> scheduleId,
                 recipient_name |-> args.recipient_name,
                 recipient_country |-> corridor.country,
                 currency_from |-> "USD",
                 currency_to |-> corridor.currency,
                 frequency |-> args.frequency,
                 start_date |-> StartDate(args),
                 next_execution |-> StartDate(args),
                 status |-> "active",
                 total_sent |-> 0,
                 execution_count |-> 0,
                 created_at |-> NowISO]
                @@ (IF Has(args, "amount") THEN [amount |-> args.amount] ELSE << >>)
          IN /\ scheduledCounter < InitialScheduledCounter + MaxSchedules
             /\ scheduledCounter' = scheduledCounter + 1
             /\ scheduledTransfers' = (scheduleId :> scheduledTransfer) @@ scheduledTransfers
             /\ scheduledOrder' = Append(scheduledOrder, scheduleId)
             /\ response' =
                  IF ~ThrowsRangeError(StartDate(args), 3)
                  THEN [op |-> "schedule_transfer", ret |-> "ok", id |-> scheduleId,
                        nextExecutionDates |->
                          getNextExecutionDates(args.frequency, StartDate(args), 3),
                        totalScheduled |-> Cardinality(DOMAIN scheduledTransfers) + 1]
                  ELSE [op |-> "schedule_transfer", ret |-> "throw", kind |-> "RangeError"]
  /\ UNCHANGED << now, useRealAPI, cacheVars, transferVars, recipientVars,
                  wiseTransfers, calls >>

\* server.ts:163-187 called on its own
GetNextExecutionDates(frequency, startDate, count) ==
  /\ response = None
  /\ response' =
       [op |-> "getNextExecutionDates", frequency |-> frequency,
        startDate |-> startDate, count |-> count]
       @@ (IF ThrowsRangeError(startDate, count)
           THEN [ret |-> "throw", kind |-> "RangeError"]
           ELSE [ret |-> "ok",
                 dates |-> getNextExecutionDates(frequency, startDate, count)])
  /\ UNCHANGED << now, useRealAPI, scheduleVars, cacheVars, transferVars, recipientVars,
                  wiseTransfers, calls >>

\* server.ts:3032: the comparator's result is negative; a NaN difference (an
\* Invalid Date on either side) is not
ExecutesBefore(a, b) ==
  /\ ValidDate(a.next_execution)
  /\ ValidDate(b.next_execution)
  /\ \/ a.next_execution.day < b.next_execution.day
     \/ /\ a.next_execution.day = b.next_execution.day
        /\ a.next_execution.ms < b.next_execution.ms

\* one step of the stable sort: s goes behind the last element it does not
\* precede
InsertSchedule(sorted, s) ==
  LET behind == { k \in 1..Len(sorted) : ~ExecutesBefore(s, sorted[k]) }
      at == IF behind = {} THEN 0 ELSE CHOOSE k \in behind : \A j \in behind : j <= k
  IN SubSeq(sorted, 1, at) \o << s >> \o SubSeq(sorted, at + 1, Len(sorted))

RECURSIVE SortByNextExecution(_)
\* Array.prototype.sort of server.ts:3032
SortByNextExecution(list) ==
  IF list = << >> THEN << >>
  ELSE InsertSchedule(SortByNextExecution(SubSeq(list, 1, Len(list) - 1)), list[Len(list)])

\* a list_scheduled_transfers that also returns the cancelled schedules
AllScheduledUnfiltered ==
  SortByNextExecution([k \in 1..Len(scheduledOrder) |-> scheduledTransfers[scheduledOrder[k]]])

\* server.ts:3030-3032
AllScheduled ==
  SortByNextExecution(
    SelectSeq([k \in 1..Len(scheduledOrder) |-> scheduledTransfers[scheduledOrder[k]]],
              LAMBDA s : s.status = "active"))

\* server.ts:3029-3066
ListScheduledTransfers ==
  /\ response = None
  /\ response' = [op |-> "list_scheduled_transfers", ret |-> "ok",
                  schedules |-> AllScheduled, total |-> Len(AllScheduled)]
  /\ UNCHANGED << now, useRealAPI, scheduleVars, cacheVars, transferVars, recipientVars,
                  wiseTransfers, calls >>

\* server.ts:3069-3103
\* a variant of CancelScheduledTransfer that files a cancelled record under an
\* identifier the store does not hold, for C31
CancelScheduledTransferCreating(schedule_id) ==
  /\ response = None
  /\ scheduledTransfers' =
       (schedule_id :> ([status |-> "cancelled", cancelled_at |-> NowISO]
                        @@ (IF schedule_id \in DOMAIN scheduledTransfers
                            THEN scheduledTransfers[schedule_id]
                            ELSE [id |-> schedule_id])))
       @@ scheduledTransfers
  /\ response' = IF schedule_id \in DOMAIN scheduledTransfers
                 THEN [op |-> "cancel_scheduled_transfer", ret |-> "ok", id |-> schedule_id]
                 ELSE [op |-> "cancel_scheduled_transfer", ret |-> "error",
                       kind |-> "not_found", id |-> schedule_id]
  /\ UNCHANGED << now, useRealAPI, scheduledOrder, scheduledCounter, cacheVars,
                  transferVars, recipientVars, wiseTransfers, calls >>

CancelScheduledTransfer(schedule_id) ==
  /\ response = None
  /\ IF schedule_id \notin DOMAIN scheduledTransfers
     THEN /\ response' = [op |-> "cancel_scheduled_transfer", ret |-> "error",
                          kind |-> "not_found", id |-> schedule_id]
          /\ UNCHANGED scheduledTransfers
     ELSE /\ scheduledTransfers' =
               (schedule_id :> ([status |-> "cancelled", cancelled_at |-> NowISO]
                                @@ scheduledTransfers[schedule_id]))
               @@ scheduledTransfers
          /\ response' = [op |-> "cancel_scheduled_transfer", ret |-> "ok",
                          id |-> schedule_id]
  /\ UNCHANGED << now, useRealAPI, scheduledOrder, scheduledCounter, cacheVars,
                  transferVars, recipientVars, wiseTransfers, calls >>

-----------------------------------------------------------------------------
(* Inputs *)

USD(dollars) == dollars * 100

SendMoneyArgs ==
  { [amount |-> USD(100), to_country |-> IN_Mexico, recipient_name |-> NAME_Maria],
    [amount |-> USD(1000), to_country |-> IN_BRAZIL, recipient_name |-> NAME_Maria],
    [amount |-> USD(5000), to_country |-> IN_Mexico, recipient_name |-> NAME_Maria],
    [amount |-> USD(100), recipient_country |-> IN_Mexico, recipient_name |-> NAME_Maria],
    [amount |-> USD(100), to_country |-> IN_Atlantis, recipient_name |-> NAME_Maria],
    [amount |-> USD(5002), to_country |-> IN_Mexico, recipient_name |-> NAME_Maria],
    [amount |-> 0, to_country |-> IN_Mexico, recipient_name |-> NAME_Maria],
    [amount |-> USD(-100), to_country |-> IN_Mexico, recipient_name |-> NAME_Maria],
    [amount |-> USD(-100), to_country |-> IN_Atlantis, recipient_name |-> NAME_Maria],
    [to_country |-> IN_Mexico, recipient_name |-> NAME_Maria],
    [amount |-> USD(100), recipient_name |-> NAME_Maria],
    [amount |-> USD(5002), to_country |-> IN_Mexico] }

SendAgainArgs == { << >>, [recipient_name |-> NAME_mar], [recipient_name |-> NAME_Juan] }

QuickSendArgs ==
  { [recipient_name |-> NAME_mar, amount |-> USD(100)],
    [recipient_name |-> NAME_mar, amount |-> USD(6000)],
    [recipient_name |-> NAME_Juan, amount |-> USD(100)] }

AddRecipientArgs ==
  { [name |-> NAME_Maria, country |-> IN_BRAZIL],
    [name |-> NAME_Maria, country |-> IN_Atlantis],
    [name |-> NAME_Maria] }

RecipientIdInputs ==
  { RecipientId(n) : n \in InitialRecipientCounter..(InitialRecipientCounter + MaxRecipients) }

TransferIdInputs == { TransferId(n) : n \in InitialTransferCounter..CounterLimit }

\* the date string 'YYYY-MM-DD', which Date reads as midnight UTC
DateOnly(year, month, day) ==
  [day |-> DaysFromCivil(year, month, day), ms |-> 0, iso |-> FALSE]

\* the date string toISOString writes for a time of the given day
ISODate(year, month, day, time) ==
  [day |-> DaysFromCivil(year, month, day), ms |-> time, iso |-> TRUE]

FrequencyInputs == validFrequencies \cup { "daily", "yearly" }

StartDateInputs ==
  { DateOnly(2025, 1, 31), DateOnly(2024, 1, 31), DateOnly(2025, 1, 15),
    DateOnly(2025, 11, 30), ISODate(2025, 3, 31, 10 * 60 * 60 * 1000),
    ISODate(2025, 12, 30, MsPerDay - 1), [text |-> "soon"] }

CountInputs == 0..MaxCount

ScheduleTransferArgs ==
  { [amount |-> USD(100), to_country |-> IN_BRAZIL, recipient_name |-> NAME_Maria,
     frequency |-> "monthly"],
    [amount |-> USD(100), to_country |-> IN_Mexico, recipient_name |-> NAME_Maria,
     frequency |-> "weekly", start_date |-> DateOnly(2025, 1, 31)],
    [amount |-> USD(100), to_country |-> IN_Mexico, recipient_name |-> NAME_Maria,
     frequency |-> "weekly", start_date |-> [text |-> "soon"]],
    [amount |-> USD(100), to_country |-> IN_Mexico, recipient_name |-> NAME_Maria,
     frequency |-> "weekly", start_date |-> << >>],
    [to_country |-> IN_Mexico, recipient_name |-> NAME_Maria, frequency |-> "quarterly"],
    [amount |-> 0, to_country |-> IN_Mexico, recipient_name |-> NAME_Maria,
     frequency |-> "weekly"],
    [amount |-> USD(100), to_country |-> IN_Mexico, frequency |-> "weekly"],
    [amount |-> USD(100), to_country |-> IN_Atlantis, recipient_name |-> NAME_Maria,
     frequency |-> "weekly"],
    [amount |-> USD(100), to_country |-> IN_Mexico, recipient_name |-> NAME_Maria,
     frequency |-> "daily"],
    [amount |-> USD(100), to_country |-> IN_Mexico, recipient_name |-> NAME_Maria] }

ScheduleIdInputs ==
  { ScheduleId(n) : n \in InitialScheduledCounter..(InitialScheduledCounter + MaxSchedules) }

-----------------------------------------------------------------------------
(* The payment path: send_money in demo and in real-provider mode, with the
   provider sequence of wise.ts, and check_transfer_status. *)

Init ==
  /\ now = StartTime
  /\ useRealAPI \in BOOLEAN
  /\ exchangeRatesCache = Null
  /\ lastFetchTime = 0
  /\ transfers = << >>
  /\ transferOrder = << >>
  /\ transferCounter = InitialTransferCounter
  /\ recipients = << >>
  /\ recipientOrder = << >>
  /\ recipientCounter = InitialRecipientCounter
  /\ scheduledTransfers = << >>
  /\ scheduledOrder = << >>
  /\ scheduledCounter = InitialScheduledCounter
  /\ wiseTransfers = << >>
  /\ calls = EmptyBag
  /\ response = None

Next ==
  \/ \E args \in SendMoneyArgs : SendMoney(args)
  \/ \E c \in BagToSet(calls) : SendMoneyRates(c)
  \/ \E c \in BagToSet(calls) : SendMoneyQuote(c)
  \/ \E c \in BagToSet(calls) : SendMoneyRecipient(c)
  \/ \E c \in BagToSet(calls) : SendMoneyTransfer(c)
  \/ \E c \in BagToSet(calls) : SendMoneyFund(c)
  \/ \E id \in TransferIdInputs, coin \in BOOLEAN : CheckTransferStatus(id, coin)
  \/ Deliver
  \/ Tick

Spec == Init /\ [][Next]_vars

\* What the scheduling of the process guarantees on the payment path: the
\* transport sends a returned answer, and a handler goes on when its rate
\* fetch has settled, however many other requests arrive meanwhile (strong
\* fairness: the step is disabled while another answer is being sent).
\* Nothing makes a provider request settle: the axios client is created
\* without a timeout (wise.ts:49-55), so the provider steps carry no fairness.
LiveSpec ==
  /\ Spec
  /\ WF_vars(Deliver)
  /\ SF_vars(\E c \in BagToSet(calls) : SendMoneyRates(c))

\* The same with a provider that settles every request, by an answer or an
\* error
AnsweringSpec ==
  /\ LiveSpec
  /\ SF_vars(\E c \in BagToSet(calls) : SendMoneyQuote(c))
  /\ SF_vars(\E c \in BagToSet(calls) : SendMoneyRecipient(c))
  /\ SF_vars(\E c \in BagToSet(calls) : SendMoneyTransfer(c))
  /\ SF_vars(\E c \in BagToSet(calls) : SendMoneyFund(c))

-----------------------------------------------------------------------------
(* The repeat and recipient tools in demo mode (no provider credentials,
   server.ts:3604), with send_money as the source of the first transfer. *)

RepeatInit == Init /\ useRealAPI = FALSE

RepeatNext ==
  \/ \E args \in SendMoneyArgs : SendMoney(args)
  \/ \E c \in BagToSet(calls) : SendMoneyRates(c)
  \/ \E args \in SendAgainArgs : SendAgain(args)
  \/ \E c \in BagToSet(calls) : SendAgainRates(c)
  \/ \E args \in QuickSendArgs : QuickSend(args)
  \/ \E c \in BagToSet(calls) : QuickSendRates(c)
  \/ \E args \in AddRecipientArgs : AddRecipient(args)
  \/ Deliver
  \/ Tick

RepeatSpec == RepeatInit /\ [][RepeatNext]_vars

\* The recipient book in demo mode: add_recipient, delete_recipient and the
\* quick_send invocations that read and update it across their await
RecipientNext ==
  \/ \E args \in AddRecipientArgs : AddRecipient(args)
  \/ \E id \in RecipientIdInputs : DeleteRecipient(id)
  \/ \E args \in QuickSendArgs : QuickSend(args)
  \/ \E c \in BagToSet(calls) : QuickSendRates(c)
  \/ Deliver
  \/ Tick

RecipientSpec == RepeatInit /\ [][RecipientNext]_vars

\* The schedule book: schedule_transfer, list_scheduled_transfers and
\* cancel_scheduled_transfer, none of which awaits, beside the recipient book
ScheduleNext ==
  \/ \E args \in ScheduleTransferArgs : ScheduleTransfer(args)
  \/ ListScheduledTransfers
  \/ \E id \in ScheduleIdInputs : CancelScheduledTransfer(id)
  \/ \E args \in AddRecipientArgs : AddRecipient(args)
  \/ \E id \in RecipientIdInputs : DeleteRecipient(id)
  \/ Deliver
  \/ Tick

ScheduleSpec == RepeatInit /\ [][ScheduleNext]_vars

\* The execution dates: getNextExecutionDates called on its own and by
\* schedule_transfer
DatesNext ==
  \/ \E frequency \in FrequencyInputs, startDate \in StartDateInputs, count \in CountInputs :
       GetNextExecutionDates(frequency, startDate, count)
  \/ \E args \in ScheduleTransferArgs : ScheduleTransfer(args)
  \/ Deliver

DatesSpec == RepeatInit /\ [][DatesNext]_vars

\* The transfer store and the recipient book in demo mode under every handler
\* that reads or writes them, at one time of the clock
StoreNext ==
  \/ \E args \in SendMoneyArgs : SendMoney(args)
  \/ \E c \in BagToSet(calls) : SendMoneyRates(c)
  \/ \E args \in SendAgainArgs : SendAgain(args)
  \/ \E c \in BagToSet(calls) : SendAgainRates(c)
  \/ \E args \in QuickSendArgs : QuickSend(args)
  \/ \E c \in BagToSet(calls) : QuickSendRates(c)
  \/ \E args \in AddRecipientArgs : AddRecipient(args)
  \/ \E id \in RecipientIdInputs : DeleteRecipient(id)
  \/ \E id \in TransferIdInputs, coin \in BOOLEAN : CheckTransferStatus(id, coin)
  \/ Deliver

StoreSpec == RepeatInit /\ [][StoreNext]_vars

\* one accepted input for each handler that does not read the recipient book
PlainSendMoneyArgs ==
  { [amount |-> USD(100), to_country |-> IN_Mexico, recipient_name |-> NAME_Maria] }

PlainSendAgainArgs == { [recipient_name |-> NAME_mar] }

PlainScheduleTransferArgs ==
  { [amount |-> USD(100), to_country |-> IN_BRAZIL, recipient_name |-> NAME_Maria,
     frequency |-> "monthly"] }

\* Every handler of the demo mode at one time of the clock: the recipient book
\* under all its inputs, the other handlers under one accepted input each
AllHandlersNext ==
  \/ \E args \in PlainSendMoneyArgs : SendMoney(args)
  \/ \E c \in BagToSet(calls) : SendMoneyRates(c)
  \/ \E args \in PlainSendAgainArgs : SendAgain(args)
  \/ \E c \in BagToSet(calls) : SendAgainRates(c)
  \/ \E args \in QuickSendArgs : QuickSend(args)
  \/ \E c \in BagToSet(calls) : QuickSendRates(c)
  \/ \E args \in AddRecipientArgs : AddRecipient(args)
  \/ \E id \in RecipientIdInputs : DeleteRecipient(id)
  \/ \E id \in TransferIdInputs, coin \in BOOLEAN : CheckTransferStatus(id, coin)
  \/ \E args \in PlainScheduleTransferArgs : ScheduleTransfer(args)
  \/ \E id \in ScheduleIdInputs : CancelScheduledTransfer(id)
  \/ ListScheduledTransfers
  \/ Deliver

AllHandlersSpec == RepeatInit /\ [][AllHandlersNext]_vars

\* schedules that start now, at a date to come and at a date Date cannot read
DatedScheduleTransferArgs ==
  { [amount |-> USD(100), to_country |-> IN_BRAZIL, recipient_name |-> NAME_Maria,
     frequency |-> "monthly"],
    [amount |-> USD(100), to_country |-> IN_Mexico, recipient_name |-> NAME_Maria,
     frequency |-> "weekly", start_date |-> DateOnly(2025, 1, 31)],
    [amount |-> USD(100), to_country |-> IN_Mexico, recipient_name |-> NAME_Maria,
     frequency |-> "weekly", start_date |-> [text |-> "soon"]] }

\* The schedule book beside the handlers that create transfers, while the
\* clock passes the execution time of a schedule
ExecutionNext ==
  \/ \E args \in DatedScheduleTransferArgs : ScheduleTransfer(args)
  \/ ListScheduledTransfers
  \/ \E id \in ScheduleIdInputs : CancelScheduledTransfer(id)
  \/ \E args \in PlainSendMoneyArgs : SendMoney(args)
  \/ \E c \in BagToSet(calls) : SendMoneyRates(c)
  \/ Deliver
  \/ Tick

ExecutionSpec == RepeatInit /\ [][ExecutionNext]_vars

-----------------------------------------------------------------------------
(* Properties *)

\* clamp(amount * 0.015, 2.99, 50) in cents
ExpectedFee(amount) ==
  IF amount * 15 < 299 * 1000 THEN 299
  ELSE IF amount * 15 > 5000 * 1000 THEN 5000
  ELSE (amount * 15) \div 1000

\* the answer r is an error; the answer r is a success
Rejected(r) == Has(r, "ret") /\ r.ret = "error"

Accepted(r) == Has(r, "ret") /\ r.ret = "ok"

StatusIndex(status) == indexOf(Statuses, status)

\* C1: every step keeps every stored transfer, and leaves its status where it
\* is or moves it exactly one position forward along pending, processing,
\* completed; so the index never decreases, never skips, and completed stays.
C1_StatusAdvancesByAtMostOne ==
  [][\A id \in DOMAIN transfers :
       /\ id \in DOMAIN transfers'
       /\ StatusIndex(transfers[id].status) >= 0
       /\ \/ transfers'[id].status = transfers[id].status
          \/ StatusIndex(transfers'[id].status) = StatusIndex(transfers[id].status) + 1
       /\ transfers[id].status = "completed" => transfers'[id].status = "completed"]_vars

\* C1: a status check has just moved a pending transfer to processing
C1_Witness ==
  /\ response.op = "check_transfer_status"
  /\ response.ret = "ok"
  /\ response.before = "pending"
  /\ transfers[response.id].status = "processing"

\* the amount is missing, not positive, or over the per-transaction limit
AmountRejected(args) ==
  \/ ~Has(args, "amount")
  \/ args.amount <= 0
  \/ args.amount > 500000

\* C2: send_money with a missing amount, an amount <= 0 or an amount over
\* 5000 USD answers with an error and changes nothing: the store, the
\* identifier counter, the rate cache, the pending calls (no rate fetch, no
\* provider call) and the provider's transfers stay as they are.
C2_BadAmountHasNoEffect ==
  [][\A args \in SendMoneyArgs :
       (AmountRejected(args) /\ SendMoney(args)) =>
         /\ Rejected(response')
         /\ UNCHANGED << transfers, transferOrder, transferCounter, exchangeRatesCache,
                         lastFetchTime, calls, wiseTransfers >>]_vars

\* C2: an over-limit submission has been refused while a transfer is stored
C2_Witness ==
  /\ response.op = "send_money"
  /\ response.ret = "error"
  /\ response.kind = "amount_over_limit"
  /\ response.args.amount > 500000
  /\ transfers # << >>

\* no corridor has this country name, letter case aside
NoCorridorNamed(country) ==
  \A i \in 1..Len(SUPPORTED_CORRIDORS) :
    toLowerCase(SUPPORTED_CORRIDORS[i].country) # toLowerCase(country)

C4_MissingRateRejected ==
  [][\A c \in BagToSet(calls) : \A rateData \in RateDataValues :
       ( /\ Waiting(c, "send_money", "rates")
         /\ ~Has(rateData.rates, c.corridor.currency)
         /\ FetchReturns(c, rateData)
         /\ SendMoneyWithRates(SetToBag({c}), c, rateData) ) =>
         /\ Rejected(response')
         /\ UNCHANGED << transfers, transferOrder, transferCounter >>]_vars

\* C4: a submission to Brazil has been refused for want of a BRL rate
C4_Witness ==
  /\ response.op = "send_money"
  /\ response.ret = "error"
  /\ response.kind = "rate_unavailable"
  /\ response.currency = "BRL"
  /\ ~Has(FallbackRates, "BRL")

\* C5: the record of an accepted send_money has fee = clamp(amount * 0.015,
\* 2.99, 50), so 2.99 <= fee <= 50, and net_amount = amount - fee, whether it
\* was made by the provider, in demo mode, or by the fallback.
C5_SendMoneyFeeClamped ==
  (response.op = "send_money" /\ response.ret = "ok") =>
    LET t == transfers[response.id] IN
    /\ response.path \in {"real", "demo", "fallback"}
    /\ t.amount = response.args.amount
    /\ t.fee = ExpectedFee(t.amount)
    /\ 299 <= t.fee /\ t.fee <= 5000
    /\ t.net_amount = t.amount - t.fee

\* C5: the provider path has stored a 5000 USD transfer with the capped fee
C5_Witness ==
  /\ response.op = "send_money"
  /\ response.ret = "ok"
  /\ response.path = "real"
  /\ transfers[response.id].amount = 500000
  /\ transfers[response.id].fee = 5000

\* C6: every stored transfer, whichever tool made it, has net_amount =
\* amount - fee and fee = clamp(amount * 0.015, 2.99, 50) within [2.99, 50].
C6_EveryFeeClamped ==
  \A id \in DOMAIN transfers :
    /\ transfers[id].net_amount = transfers[id].amount - transfers[id].fee
    /\ transfers[id].fee = ExpectedFee(transfers[id].amount)
    /\ 299 <= transfers[id].fee /\ transfers[id].fee <= 5000

\* C7: every stored transfer has a rate and a recipient amount, and
\* recipient_amount = net_amount * exchange_rate, provider records included.
C7_RecipientAmountIsNetTimesRate ==
  \A id \in DOMAIN transfers :
    /\ Has(transfers[id], "exchange_rate")
    /\ Has(transfers[id], "recipient_amount")
    /\ transfers[id].recipient_amount = transfers[id].net_amount * transfers[id].exchange_rate

\* the messages a failed provider call at step pc can throw
ThrownAt(pc) ==
  { (IF pc = "quote" THEN QuoteErrorMessage(error)
     ELSE IF pc = "recipient" THEN RecipientErrorMessage(error)
     ELSE TransferErrorMessage(error)) : error \in ProviderFailures }

\* C8: in provider mode, when a send_money waiting for the quote, the
\* recipient or the transfer ends at that step (the call failed), it answers
\* without an error and stores exactly one transfer: simulated, with the
\* local rate and amounts, a status among pending, processing, completed,
\* and an error_note holding the text of the error.
C8_ProviderFailureFallsBack ==
  [][\A c \in BagToSet(calls) :
       ( /\ useRealAPI
         /\ c.op = "send_money"
         /\ c.pc \in {"quote", "recipient", "transfer"}
         /\ calls' = calls (-) SetToBag({c}) ) =>
         /\ response'.op = "send_money"
         /\ Accepted(response')
         /\ DOMAIN transfers' = DOMAIN transfers \cup {c.transferId}
         /\ c.transferId \notin DOMAIN transfers
         /\ \A id \in DOMAIN transfers : transfers'[id] = transfers[id]
         /\ LET t == transfers'[c.transferId] IN
            /\ t.is_real_transfer = FALSE
            /\ ~Has(t, "wise_transfer_id")
            /\ t.exchange_rate = c.rate
            /\ t.fee = c.feeAmount
            /\ t.net_amount = c.netAmount
            /\ t.recipient_amount = c.netAmount * c.rate
            /\ t.status \in {"pending", "processing", "completed"}
            /\ Has(t, "error_note")
            /\ \E message \in ThrownAt(c.pc) :
                 /\ t.error_note = TXT_WiseFailed \o message \o TXT_UsingSimulation
                 /\ includes(t.error_note, message)]_vars

\* C8: a failed recipient call has been answered with a simulated transfer
C8_Witness ==
  /\ useRealAPI
  /\ response.op = "send_money"
  /\ response.ret = "ok"
  /\ response.path = "fallback"
  /\ response.failed = "recipient"
  /\ Has(transfers[response.id], "error_note")

\* the provider answered the funding call with 403 Forbidden
FundingRefused ==
  /\ response.op = "send_money"
  /\ response.ret = "ok"
  /\ Has(response, "fundError")
  /\ response.fundError.response.status = 403

\* C9: when the quote, the recipient and the transfer were made and the
\* provider refused the funding for want of permission, the stored record is a
\* provider transfer: is_real_transfer, the provider's transfer id, no error
\* note.
C9_FundingRefusalKeepsRealTransfer ==
  FundingRefused =>
    LET t == transfers[response.id] IN
    /\ t.is_real_transfer = TRUE
    /\ Has(t, "wise_transfer_id")
    /\ t.wise_transfer_id = response.wiseTransferId
    /\ ~Has(t, "error_note")

\* C10: a transfer whose funding the provider refused for want of permission
\* is not stored as completed.
C10_FundingRefusalNotCompleted ==
  (FundingRefused /\ transfers[response.id].is_real_transfer) =>
    transfers[response.id].status # "completed"

\* the provider calls of WiseService.sendMoney, in their order
ProviderSteps == << "quote", "recipient", "transfer", "fund" >>

\* the results invocation c holds of the provider calls before the one it waits for
HoldsEarlierResults(c) ==
  /\ indexOf(ProviderSteps, c.pc) >= 1 => Has(c, "quote")
  /\ indexOf(ProviderSteps, c.pc) >= 2 => Has(c, "recipient")
  /\ indexOf(ProviderSteps, c.pc) >= 3 => Has(c, "transfer")
  /\ \A k \in 1..Len(ProviderSteps) :
       k - 1 >= indexOf(ProviderSteps, c.pc) => ~Has(c, ProviderSteps[k])

\* invocation c waits for the answer of a provider call
InProviderSequence(c) ==
  c.op = "send_money" /\ indexOf(ProviderSteps, c.pc) >= 0

\* C11: in real-provider mode a send_money waits for createQuote,
\* createRecipient, createTransfer, fundTransfer in this order: it waits for
\* a call only with the results of all earlier calls and of no later one, a
\* step takes it to the next call of the order or ends the sequence, and the
\* store has no record under its identifier while the sequence runs.
C11_ProviderCallsInOrder ==
  [][\A c \in BagToSet(calls) : InProviderSequence(c) =>
       /\ useRealAPI
       /\ HoldsEarlierResults(c)
       /\ c.transferId \notin DOMAIN transfers
       /\ \A d \in BagToSet(calls') :
            (InProviderSequence(d) /\ d.transferId = c.transferId) =>
              /\ HoldsEarlierResults(d)
              /\ c.transferId \notin DOMAIN transfers'
              /\ \/ d = c
                 \/ /\ indexOf(ProviderSteps, d.pc) = indexOf(ProviderSteps, c.pc) + 1
                    /\ \A key \in DOMAIN c : key # "pc" => d[key] = c[key]
       /\ (c.pc # "fund" /\ CopiesIn(c, calls') < CopiesIn(c, calls)
           /\ \A d \in BagToSet(calls') : ~(InProviderSequence(d) /\ d.transferId = c.transferId))
          => /\ c.transferId \in DOMAIN transfers'
             /\ transfers'[c.transferId].is_real_transfer = FALSE]_vars

\* C11: the whole sequence has run: the provider has a funded transfer and
\* send_money has stored the provider record after it
C11_Witness ==
  /\ response.op = "send_money"
  /\ Accepted(response)
  /\ response.path = "real"
  /\ \E k \in 1..Len(wiseTransfers) :
       /\ wiseTransfers[k].funded
       /\ transfers[response.id].wise_transfer_id = wiseTransfers[k].id

\* the invocations in flight that hold a transfer identifier hold it alone,
\* and no stored record has it
IdentifiersDistinct ==
  \A c \in BagToSet(calls) : Has(c, "transferId") =>
    /\ CopiesIn(c, calls) = 1
    /\ c.transferId \notin DOMAIN transfers
    /\ \A d \in BagToSet(calls) \ {c} : Has(d, "transferId") => d.transferId # c.transferId

\* C12: under every interleaving of send_money, send_again and quick_send at
\* their awaits, no two invocations hold the same transfer identifier, none
\* holds the identifier of a stored record, and no step replaces or removes a
\* stored record.
C12_IdentifiersNeverShared ==
  [][/\ IdentifiersDistinct
     /\ IdentifiersDistinct'
     /\ \A id \in DOMAIN transfers :
          id \in DOMAIN transfers' /\ transfers'[id] = transfers[id]]_vars

\* C12: two invocations wait at their await, each with its own identifier
C12_Witness ==
  \E c, d \in BagToSet(calls) :
    /\ c # d
    /\ Has(c, "transferId") /\ Has(d, "transferId")
    /\ c.transferId # d.transferId

\* some stored transfer's recipient name contains the name, letter case
\* aside; without a name every stored transfer qualifies
PriorTransferFor(args) ==
  \E id \in DOMAIN transfers :
    Has(args, "recipient_name") =>
      includes(toLowerCase(transfers[id].recipient_name), toLowerCase(args.recipient_name))

\* the snapshot a fetchExchangeRates that has just returned gave its caller:
\* the cache as it now is, or the built-in table when there is none
CurrentRates ==
  IF exchangeRatesCache # Null THEN exchangeRatesCache.rates ELSE FallbackRates

\* C13: send_again with a prior matching transfer is not refused, and when it
\* answers it has stored exactly one new record, under an identifier no
\* record had, with the amount and the fee of the original, status completed,
\* and the rate of the current snapshot for the corridor's currency (no rate
\* when the snapshot has none), not the rate of the original.
C13_SendAgainRepeatsAmountAndFee ==
  [][/\ \A args \in SendAgainArgs :
          (PriorTransferFor(args) /\ SendAgain(args)) => ~Rejected(response')
     /\ (response = None /\ response'.op = "send_again" /\ Accepted(response')) =>
          LET id == response'.id
              original == transfers[response'.originalTransferId]
              new == transfers'[id]
          IN /\ id \notin DOMAIN transfers
             /\ DOMAIN transfers' = DOMAIN transfers \cup {id}
             /\ \A other \in DOMAIN transfers : transfers'[other] = transfers[other]
             /\ id # original.id
             /\ new.id = id
             /\ new.amount = original.amount
             /\ new.fee = original.fee
             /\ new.status = "completed"
             /\ new.recipient_name = original.recipient_name
             /\ IF Has(CurrentRates', new.to_currency)
                THEN /\ Has(new, "exchange_rate")
                     /\ new.exchange_rate = CurrentRates'[new.to_currency]
                ELSE ~Has(new, "exchange_rate")]_vars

\* C13: send_again has stored a repeat whose rate, the live one, differs
\* from the rate of the original, which was made with the built-in table
C13_Witness ==
  /\ response.op = "send_again"
  /\ Accepted(response)
  /\ transfers[response.id].amount = transfers[response.originalTransferId].amount
  /\ transfers[response.id].fee = transfers[response.originalTransferId].fee
  /\ transfers[response.id].exchange_rate = 180
  /\ transfers[response.originalTransferId].exchange_rate = 175

\* C14: send_again is refused when the store is empty or, a name being
\* given, no stored recipient name contains it (letter case aside); the
\* refusal stores nothing, leaves transferCounter, starts no rate fetch and
\* leaves the cache.
C14_SendAgainWithoutPriorRejected ==
  [][\A args \in SendAgainArgs :
       (~PriorTransferFor(args) /\ SendAgain(args)) =>
         /\ Rejected(response')
         /\ UNCHANGED << transfers, transferOrder, transferCounter, calls,
                         exchangeRatesCache, lastFetchTime, recipients >>]_vars

\* C14: send_again for a name no stored transfer has was refused while the
\* store holds a transfer to someone else
C14_Witness ==
  /\ response.op = "send_again"
  /\ Rejected(response)
  /\ Has(response.args, "recipient_name")
  /\ transfers # << >>
  /\ ~PriorTransferFor(response.args)

\* a snapshot is cached and the last successful fetch is less than an hour old
CachedWithinTTL == exchangeRatesCache # Null /\ now - lastFetchTime < 60 * 60 * 1000

\* a tool that calls fetchExchangeRates is invoked and gets as far as the call
CallsFetchExchangeRates ==
  \/ \E args \in SendMoneyArgs :
       /\ ToCountry(args) # << >> /\ Truthy(args, "recipient_name")
       /\ ~AmountRejected(args) /\ ~NoCorridorNamed(ToCountry(args))
       /\ SendMoney(args)
  \/ \E args \in SendAgainArgs : PriorTransferFor(args) /\ SendAgain(args)
  \/ \E args \in QuickSendArgs : QuickSend(args) /\ ~Rejected(response')

\* C15: with a snapshot cached and younger than one hour, a tool that calls
\* fetchExchangeRates goes on without suspending (it answers in the same
\* step and no invocation is left waiting), the cache and lastFetchTime stay
\* as they are, and the rate it uses is the cached one.
C15_FreshCacheServedWithoutFetch ==
  [][(CachedWithinTTL /\ CallsFetchExchangeRates) =>
       /\ UNCHANGED << exchangeRatesCache, lastFetchTime >>
       /\ calls' = calls
       /\ Accepted(response')
       /\ transfers'[response'.id].exchange_rate =
            exchangeRatesCache.rates[transfers'[response'.id].to_currency]]_vars

\* C15: a tool has answered with the cached live rate while the cache is less
\* than an hour old and nothing is waiting for the rate source
C15_Witness ==
  /\ CachedWithinTTL
  /\ calls = EmptyBag
  /\ response.op = "quick_send"
  /\ Accepted(response)
  /\ Cardinality(DOMAIN transfers) = 2
  /\ transfers[response.id].exchange_rate = exchangeRatesCache.rates["MXN"]

\* invocation c, waiting for fetchExchangeRates, resumes in this step
ResumesFromFetch(c) ==
  /\ response = None
  /\ c.pc = "rates"
  /\ CopiesIn(c, calls') < CopiesIn(c, calls)

\* C16: when the fetch an invocation waits for ends without writing the
\* cache (the refresh failed), the invocation still goes on with a table:
\* the cached snapshot if there is one, however old, else the built-in
\* table.  It answers; the only refusal is send_money's own, for a currency
\* the table lacks; a stored record has that table's rate.
C16_FailedRefreshFallsBack ==
  [][\A c \in BagToSet(calls) :
       (ResumesFromFetch(c) /\ UNCHANGED << exchangeRatesCache, lastFetchTime >>) =>
         LET rates == IF exchangeRatesCache # Null THEN exchangeRatesCache.rates
                      ELSE FallbackRates
             currency == c.corridor.currency
         IN /\ response' # None
            /\ response'.op = c.op
            /\ IF c.op = "send_money" /\ ~Has(rates, currency)
               THEN Rejected(response') /\ response'.kind = "rate_unavailable"
               ELSE /\ Accepted(response')
                    /\ IF Has(rates, currency)
                       THEN transfers'[response'.id].exchange_rate = rates[currency]
                       ELSE ~Has(transfers'[response'.id], "exchange_rate")]_vars

\* C16: send_again has just stored a record with the live rate although its
\* own fetch wrote nothing (lastFetchTime is not the time it was invoked):
\* the rate is that of a cache at least an hour old at the invocation
C16_Witness ==
  /\ exchangeRatesCache # Null
  /\ response.op = "send_again"
  /\ Accepted(response)
  /\ transfers[response.id].mybambu_id[2] - lastFetchTime >= 60 * 60 * 1000
  /\ transfers[response.id].to_currency = "MXN"
  /\ transfers[response.id].exchange_rate = 180

\* the cache is empty and no fetch has been timed, or it is one whole
\* snapshot (base, the full table of one answer, its date) with a fetch time
CacheWhole ==
  \/ exchangeRatesCache = Null /\ lastFetchTime = 0
  \/ /\ exchangeRatesCache # Null
     /\ DOMAIN exchangeRatesCache = {"base", "rates", "timestamp"}
     /\ exchangeRatesCache.rates \in LiveTables
     /\ lastFetchTime > 0

\* C17: under every interleaving of invocations whose fetches overlap, the
\* cache is empty or the whole snapshot of one answer of the rate source, and
\* a step that changes the cache or lastFetchTime is the return of one fetch,
\* which writes both: the snapshot of its answer and the time it started.
C17_CacheWrittenByOneFetch ==
  [][/\ CacheWhole
     /\ CacheWhole'
     /\ (exchangeRatesCache' # exchangeRatesCache \/ lastFetchTime' # lastFetchTime) =>
          \E c \in BagToSet(calls) :
            /\ ResumesFromFetch(c)
            /\ lastFetchTime' = c.fnow
            /\ \E table \in LiveTables : exchangeRatesCache' = Snapshot(table)]_vars

\* C17: the cache has been written while a fetch that started no later than
\* the writer's is still waiting for its answer
C17_Witness ==
  /\ exchangeRatesCache # Null
  /\ \E c \in BagToSet(calls) : c.pc = "rates" /\ c.fnow <= lastFetchTime

-----------------------------------------------------------------------------
(* delete_recipient, server.ts:2902-2935 *)

\* the recipient identifiers handed out so far that are not in the store
DeletedRecipients ==
  { RecipientId(n) : n \in InitialRecipientCounter..(recipientCounter - 1) } \ DOMAIN recipients

\* C19: a recipient id that was deleted is never in the recipient store again,
\* whatever step follows (an add_recipient, or a quick_send that had matched
\* the recipient before the deletion and resumes after it); a further
\* delete_recipient for it is rejected as not found and leaves the number of
\* recipients as it was.
C19_DeletedRecipientStaysDeleted ==
  [][ /\ DeletedRecipients \subseteq DeletedRecipients'
      /\ \A id \in DeletedRecipients :
           ( /\ response = None
             /\ response'.op = "delete_recipient"
             /\ response'.id = id ) =>
             /\ Rejected(response')
             /\ response'.kind = "not_found"
             /\ Cardinality(DOMAIN recipients') = Cardinality(DOMAIN recipients) ]_vars

\* the only recipient ever added was matched by a quick_send, deleted while that
\* quick_send waited for the rates, and is still absent when it has completed
C19_Witness ==
  /\ response.op = "quick_send"
  /\ Accepted(response)
  /\ recipientCounter = InitialRecipientCounter + 1
  /\ DeletedRecipients = { RecipientId(InitialRecipientCounter) }
  /\ Cardinality(DOMAIN transfers) = 1

\* a second delete_recipient for a deleted id has been rejected
C19_SecondDeleteWitness ==
  /\ response.op = "delete_recipient"
  /\ Rejected(response)
  /\ response.id \in DeletedRecipients


-----------------------------------------------------------------------------
(* Scheduled transfers, server.ts:2938-3103 *)

\* the identifiers of the schedules in a list_scheduled_transfers answer
ListedSchedules(r) == { r.schedules[k].id : k \in 1..Len(r.schedules) }

\* C20: a schedule enters the store with status 'active'; every step keeps
\* every stored schedule in the store and leaves its status as it was or takes
\* it from 'active' to 'cancelled', so a cancelled schedule is never active
\* again; and list_scheduled_transfers never returns a cancelled schedule.
C20_CancellationIsTerminal ==
  [][ /\ \A id \in DOMAIN scheduledTransfers' \ DOMAIN scheduledTransfers :
           scheduledTransfers'[id].status = "active"
      /\ \A id \in DOMAIN scheduledTransfers :
           /\ id \in DOMAIN scheduledTransfers'
           /\ \/ scheduledTransfers'[id].status = scheduledTransfers[id].status
              \/ /\ scheduledTransfers[id].status = "active"
                 /\ scheduledTransfers'[id].status = "cancelled"
           /\ scheduledTransfers[id].status = "cancelled" =>
                scheduledTransfers'[id].status = "cancelled"
      /\ response'.op = "list_scheduled_transfers" =>
           \A id \in ListedSchedules(response') :
             scheduledTransfers'[id].status = "active" ]_vars

\* list_scheduled_transfers has answered with one schedule while another one,
\* cancelled, is in the store
C20_Witness ==
  /\ response.op = "list_scheduled_transfers"
  /\ response.total = 1
  /\ \E id \in DOMAIN scheduledTransfers :
       /\ scheduledTransfers[id].status = "cancelled"
       /\ id \notin ListedSchedules(response)



-----------------------------------------------------------------------------
(* getNextExecutionDates, server.ts:163-187 *)

\* the instant a date string denotes
Instant(string) == [day |-> string.day, ms |-> string.ms]

\* instant a is earlier than instant b
Earlier(a, b) == a.day < b.day \/ (a.day = b.day /\ a.ms < b.ms)

\* getNextExecutionDates has returned for a start date that Date can parse
DatesReturned ==
  /\ response.op = "getNextExecutionDates"
  /\ Has(response.startDate, "ms")

\* C21: for weekly, bi-weekly, monthly and quarterly and every count from 0 up,
\* getNextExecutionDates of a start date returns count dates, the first the
\* instant of the start date, each later than the one before; weekly dates
\* are exactly 7 days apart and bi-weekly dates exactly 14.
C21_DatesCountedAndIncreasing ==
  (DatesReturned /\ response.frequency \in validFrequencies) =>
    /\ Accepted(response)
    /\ Len(response.dates) = response.count
    /\ response.count > 0 => Instant(response.dates[1]) = Instant(response.startDate)
    /\ \A i \in 1..(response.count - 1) :
         /\ Earlier(Instant(response.dates[i]), Instant(response.dates[i + 1]))
         /\ response.frequency = "weekly" =>
              /\ response.dates[i + 1].day = response.dates[i].day + 7
              /\ response.dates[i + 1].ms = response.dates[i].ms
         /\ response.frequency = "bi-weekly" =>
              /\ response.dates[i + 1].day = response.dates[i].day + 14
              /\ response.dates[i + 1].ms = response.dates[i].ms

\* the most dates asked for, weekly from a time late in the day
C21_Witness ==
  /\ DatesReturned
  /\ response.frequency = "weekly"
  /\ response.count = MaxCount
  /\ response.startDate.ms = MsPerDay - 1
  /\ Len(response.dates) = MaxCount


-----------------------------------------------------------------------------
(* The transfer store, server.ts:31 *)

\* C22: no step removes a stored transfer, and a step changes a stored
\* transfer only if it is check_transfer_status answering for that transfer,
\* and then in nothing but its status; so a step that changes the recipient
\* book (a deletion, the totals quick_send updates) leaves the recipient name
\* and country of every stored transfer as they were.
C22_TransfersKeptAndFrozen ==
  [][ /\ \A id \in DOMAIN transfers :
           /\ id \in DOMAIN transfers'
           /\ \/ transfers'[id] = transfers[id]
              \/ /\ response'.op = "check_transfer_status"
                 /\ Accepted(response')
                 /\ response'.id = id
                 /\ transfers'[id] = [transfers[id] EXCEPT !.status = transfers'[id].status]
      /\ recipients' # recipients =>
           \A id \in DOMAIN transfers :
             /\ transfers'[id].recipient_name = transfers[id].recipient_name
             /\ transfers'[id].recipient_country = transfers[id].recipient_country ]_vars

\* a recipient has just been deleted while a transfer to the recipient's
\* country is in the store
C22_Witness ==
  /\ response.op = "delete_recipient"
  /\ Accepted(response)
  /\ \E id \in DOMAIN transfers :
       transfers[id].recipient_country = SUPPORTED_CORRIDORS[FindCorridor(IN_BRAZIL)].country


-----------------------------------------------------------------------------
(* send_money against a provider that stays silent, server.ts:2516-2621 *)

\* a send_money invocation holds the identifier TXN-n and has not stored its
\* transfer yet
AwaitsProvider(n) ==
  \E c \in BagToSet(calls) :
    /\ c.op = "send_money"
    /\ Has(c, "transferId")
    /\ c.transferId = TransferId(n)

\* C23: every send_money that has passed validation and reserved its
\* identifier eventually stores its transfer, whether or not the provider
\* answers.
C23_SendMoneyEventuallyPersists ==
  \A n \in InitialTransferCounter..(CounterLimit - 1) :
    AwaitsProvider(n) ~> (TransferId(n) \in DOMAIN transfers)


-----------------------------------------------------------------------------
(* Demo mode, server.ts:2591-2619 and 3604 *)

\* C24: when the provider is not configured, no invocation ever waits for a
\* provider call and the provider holds no transfer, and every transfer that
\* send_money stores has is_real_transfer false and one of the statuses
\* pending, processing, completed.
C24_DemoModeNeverCallsProvider ==
  [][ ~useRealAPI =>
        /\ \A c \in BagToSet(calls') :
             \A i \in 1..Len(ProviderSteps) : c.pc # ProviderSteps[i]
        /\ wiseTransfers' = << >>
        /\ \A id \in DOMAIN transfers' \ DOMAIN transfers :
             /\ response'.op = "send_money"
             /\ transfers'[id].is_real_transfer = FALSE
             /\ transfers'[id].status \in { "pending", "processing", "completed" } ]_vars

\* a demo send_money has stored a pending transfer
C24_Witness ==
  /\ ~useRealAPI
  /\ response.op = "send_money"
  /\ Accepted(response)
  /\ transfers[response.id].status = "pending"
  /\ transfers[response.id].is_real_transfer = FALSE


-----------------------------------------------------------------------------
(* send_money from the reserved identifier to the stored record,
   server.ts:2510-2621 *)

\* the identifiers held by the send_money invocations in flight in bag b
HeldIdentifiers(b) ==
  { c.transferId : c \in { d \in BagToSet(b) : d.op = "send_money" /\ Has(d, "transferId") } }

\* C25: a send_money that has passed its checks stores exactly one transfer:
\* none while it is in flight, one under its own identifier in the step in
\* which it returns (on the real path, the fallback and the demo path alike),
\* and no step stores two or stores for an invocation that has returned.
C25_SendMoneyStoresExactlyOne ==
  [][ /\ HeldIdentifiers(calls) \cap DOMAIN transfers = {}
      /\ Cardinality(DOMAIN transfers' \ DOMAIN transfers) <= 1
      /\ \A id \in HeldIdentifiers(calls) \ HeldIdentifiers(calls') :
           /\ DOMAIN transfers' \ DOMAIN transfers = { id }
           /\ Accepted(response')
           /\ response'.id = id
      /\ (response'.op = "send_money" /\ Accepted(response') /\ response' # response) =>
           DOMAIN transfers' \ DOMAIN transfers = { response'.id }
      /\ DOMAIN transfers' # DOMAIN transfers =>
           (response'.op = "send_money" /\ Accepted(response'))
      /\ \A id \in DOMAIN transfers : transfers'[id].id = id ]_vars

\* a send_money whose provider call failed has returned on the fallback, and
\* its transfer is the one in the store
C25_Witness ==
  /\ response.op = "send_money"
  /\ Accepted(response)
  /\ response.path = "fallback"
  /\ DOMAIN transfers = { response.id }
  /\ wiseTransfers # << >>


-----------------------------------------------------------------------------
(* The amount of a stored transfer, server.ts:45 *)

\* C26: every stored transfer has an amount above 0 and at most the
\* per-transaction limit, whichever handler stored it.
C26_EveryAmountWithinLimit ==
  \A id \in DOMAIN transfers :
    /\ Has(transfers[id], "amount")
    /\ 0 < transfers[id].amount
    /\ transfers[id].amount <= perTransaction


-----------------------------------------------------------------------------
(* The identifier of send_money, server.ts:2489-2510 *)

\* C27: a send_money invocation suspended at a network call, the rate fetch
\* or a provider call, has reserved its transfer identifier already.
C27_IdentifierReservedBeforeSuspension ==
  \A c \in BagToSet(calls) : c.op = "send_money" => Has(c, "transferId")


-----------------------------------------------------------------------------
(* Monthly execution dates, server.ts:177-179 *)

\* the number of days of the month `month` (counted from 0, of any size) of `year`
DaysInMonth(year, month) == MakeDay(year, month + 1, 1) - MakeDay(year, month, 1)

\* C28: for the monthly frequency, the entry k months after the start date
\* falls on the start date's day of the month, in the month k months after the
\* start, whenever that month has such a day, also when an entry before it
\* ran over the end of a shorter month.
C28_MonthlyKeepsDayOfMonth ==
  (DatesReturned /\ response.frequency = "monthly") =>
    \A k \in 1..(response.count - 1) :
      LET start == CivilFromDays(response.startDate.day)
          entry == CivilFromDays(response.dates[k + 1].day)
      IN start.d <= DaysInMonth(start.y, start.m - 1 + k) =>
           /\ entry.d = start.d
           /\ response.dates[k + 1].day = MakeDay(start.y, start.m - 1 + k, start.d)


-----------------------------------------------------------------------------
(* Frequencies outside the switch, server.ts:170-183 and 2977-2986 *)

\* the frequencies the switch of getNextExecutionDates has a case for
SwitchCases == { "weekly", "bi-weekly", "monthly", "quarterly" }

\* C29: for a frequency the switch has no case for, getNextExecutionDates
\* returns count entries that are all the instant of the start date; and
\* schedule_transfer never gets there: a step that stores a schedule or moves
\* scheduledCounter stores a schedule with one of the four frequencies, and the
\* rejection of a frequency leaves the schedule store and the counter alone.
C29_UnknownFrequencyRepeatsStart ==
  [][ /\ ( /\ response'.op = "getNextExecutionDates"
           /\ Has(response'.startDate, "ms")
           /\ response'.frequency \notin SwitchCases ) =>
           /\ Accepted(response')
           /\ Len(response'.dates) = response'.count
           /\ \A i \in 1..response'.count :
                Instant(response'.dates[i]) = Instant(response'.startDate)
      /\ \A id \in DOMAIN scheduledTransfers' \ DOMAIN scheduledTransfers :
           scheduledTransfers'[id].frequency \in SwitchCases
      /\ scheduledCounter' # scheduledCounter =>
           /\ ScheduleId(scheduledCounter) \in DOMAIN scheduledTransfers'
           /\ scheduledTransfers'[ScheduleId(scheduledCounter)].frequency \in SwitchCases
      /\ ( /\ response'.op = "schedule_transfer"
           /\ Rejected(response')
           /\ response'.kind = "invalid_frequency" ) =>
           UNCHANGED scheduleVars ]_vars

\* getNextExecutionDates has returned the most dates asked for, for 'daily'
C29_Witness ==
  /\ DatesReturned
  /\ response.frequency = "daily"
  /\ response.count = MaxCount
  /\ Len(response.dates) = MaxCount
  /\ response.dates[MaxCount] = toISOString(NewDate(response.startDate))


-----------------------------------------------------------------------------
(* The totals of a saved recipient, server.ts:3258-3261 *)

\* the saved recipient quick_send finds for a name, << >> if there is none
FirstSavedRecipient(name) ==
  IF SavedRecipient(name) = 0 THEN << >> ELSE recipientOrder[SavedRecipient(name)]

\* the quick_send invocations that were in flight and have returned in this step
ReturnedQuickSends ==
  { c \in BagToSet(calls) :
      c.op = "quick_send" /\ CopiesIn(c, calls') < CopiesIn(c, calls) }

\* C30: a step changes a stored recipient only if it is the return of a
\* quick_send that found this recipient as the first saved one whose name
\* contains the name given, and then it adds the amount sent to total_sent and
\* 1 to transfer_count and changes nothing else, of this recipient or of any
\* other; a recipient enters the book with both at 0.  So send_money,
\* send_again, the schedule handlers and check_transfer_status change none.
C30_TotalsChangeOnlyByQuickSend ==
  [][ /\ \A id \in DOMAIN recipients \cap DOMAIN recipients' :
           recipients'[id] # recipients[id] =>
             /\ response'.op = "quick_send"
             /\ Accepted(response')
             /\ recipients'[id] =
                  [recipients[id] EXCEPT !.total_sent = @ + response'.args.amount,
                                         !.transfer_count = @ + 1]
             /\ NameMatches(recipients[id].name, response'.args.recipient_name)
             /\ \/ \E c \in ReturnedQuickSends : c.savedRecipient = id
                \/ /\ ReturnedQuickSends = {}
                   /\ FirstSavedRecipient(response'.args.recipient_name) = id
             /\ \A other \in (DOMAIN recipients \cap DOMAIN recipients') \ { id } :
                  recipients'[other] = recipients[other]
      /\ \A c \in BagToSet(calls') :
           (c.op = "quick_send" /\ CopiesIn(c, calls') > CopiesIn(c, calls)) =>
             c.savedRecipient = FirstSavedRecipient(c.args.recipient_name)
      /\ \A id \in DOMAIN recipients' \ DOMAIN recipients :
           /\ recipients'[id].total_sent = 0
           /\ recipients'[id].transfer_count = 0 ]_vars

\* quick_send has returned with two recipients of the name in the book: the
\* first saved one has the amount and the count, the second has neither
C30_Witness ==
  /\ response.op = "quick_send"
  /\ Accepted(response)
  /\ Len(recipientOrder) = 2
  /\ recipients[recipientOrder[1]].total_sent = response.args.amount
  /\ recipients[recipientOrder[1]].transfer_count = 1
  /\ recipients[recipientOrder[2]].total_sent = 0
  /\ recipients[recipientOrder[2]].transfer_count = 0


\* the store a handler looks its identifier up in
StoreOf(op) ==
  CASE op = "check_transfer_status" -> transfers
    [] op = "delete_recipient" -> recipients
    [] op = "cancel_scheduled_transfer" -> scheduledTransfers

LookupHandlers == { "check_transfer_status", "delete_recipient", "cancel_scheduled_transfer" }

\* C31: check_transfer_status, delete_recipient and cancel_scheduled_transfer
\* called with an identifier that their store does not hold answer with an
\* error, and the call changes none of the three stores and none of the three
\* counters.
C31_UnknownIdentifierHasNoEffect ==
  [][ (/\ response = None
       /\ response'.op \in LookupHandlers
       /\ response'.id \notin DOMAIN StoreOf(response'.op))
      => /\ Rejected(response')
         /\ response'.kind = "not_found"
         /\ UNCHANGED << transfers, recipients, scheduledTransfers, transferOrder,
                         recipientOrder, scheduledOrder, transferCounter,
                         recipientCounter, scheduledCounter >> ]_vars

\* a cancellation of an unknown schedule was answered while each store holds
\* an entry
C31_Witness ==
  /\ Rejected(response)
  /\ response.op = "cancel_scheduled_transfer"
  /\ response.id \notin DOMAIN scheduledTransfers
  /\ transfers # << >>
  /\ recipients # << >>
  /\ scheduledTransfers # << >>


\* the schedule is active and its next_execution is an instant before now
Due(schedule) ==
  /\ schedule.status = "active"
  /\ ValidDate(schedule.next_execution)
  /\ Earlier(Instant(schedule.next_execution), Instant(NowISO))

\* C32: the engine never executes a schedule.  Every stored schedule has
\* execution_count 0, a stored schedule stays stored with the next_execution
\* it was created with, and a Transfer is stored only by a step that answers
\* send_money and leaves the clock and the schedule book as they were.
C32_SchedulesNeverExecuted ==
  [][ /\ \A id \in DOMAIN scheduledTransfers' :
           scheduledTransfers'[id].execution_count = 0
      /\ \A id \in DOMAIN scheduledTransfers :
           /\ id \in DOMAIN scheduledTransfers'
           /\ scheduledTransfers'[id].next_execution
                = scheduledTransfers[id].next_execution
           /\ scheduledTransfers'[id].total_sent = 0
      /\ transfers' # transfers
           => /\ Accepted(response')
              /\ response'.op = "send_money"
              /\ now' = now
              /\ UNCHANGED scheduleVars ]_vars

\* a schedule whose time has come is still active and unexecuted, after the
\* clock has advanced and a send_money has stored a transfer
C32_Witness ==
  /\ now > StartTime
  /\ transfers # << >>
  /\ \E id \in DOMAIN scheduledTransfers :
       /\ Due(scheduledTransfers[id])
       /\ scheduledTransfers[id].execution_count = 0


\* the answer r of a resumed invocation c was computed from the built-in
\* table: the stored rate is the built-in one, or the table lacks the currency
UsedBuiltInTable(c, r) ==
  LET currency == c.corridor.currency IN
  IF Rejected(r) THEN r.kind = "rate_unavailable"
  ELSE /\ Accepted(r)
       /\ IF Has(FallbackRates, currency)
          THEN /\ Has(transfers'[r.id], "exchange_rate")
               /\ transfers'[r.id].exchange_rate = FallbackRates[currency]
          ELSE ~Has(transfers'[r.id], "exchange_rate")

\* C33: a failed refresh changes neither exchangeRatesCache nor
\* lastFetchTime and the built-in table is never stored in the cache: an
\* invocation that resumes with the built-in table leaves the cache empty and
\* lastFetchTime 0, the cache never holds the built-in table, the cache turns
\* fresh only in a step where a fetch stores its live answer, and while it is
\* not fresh a transfer is stored only by an invocation that resumes from its
\* own request to the rate source.
C33_FailedRefreshLeavesCacheAlone ==
  [][ /\ \A c \in BagToSet(calls) :
           (ResumesFromFetch(c) /\ UsedBuiltInTable(c, response'))
             => /\ UNCHANGED << exchangeRatesCache, lastFetchTime >>
                /\ exchangeRatesCache = Null
                /\ lastFetchTime = 0
      /\ exchangeRatesCache' # Null => exchangeRatesCache'.rates # FallbackRates
      /\ (~CacheFresh(now) /\ CacheFresh(now)')
           => /\ exchangeRatesCache'.rates \in LiveTables
              /\ \E c \in BagToSet(calls) :
                   ResumesFromFetch(c) /\ lastFetchTime' = c.fnow
      /\ (~CacheFresh(now) /\ DOMAIN transfers' # DOMAIN transfers)
           => \E c \in BagToSet(calls) : ResumesFromFetch(c) ]_vars

\* two invocations in a row were answered from the built-in table: the first
\* left the cache empty, the second asked the rate source again and stored
\* the built-in rate too
C33_Witness ==
  /\ exchangeRatesCache = Null
  /\ lastFetchTime = 0
  /\ Accepted(response)
  /\ Cardinality(DOMAIN transfers) = 2
  /\ \A id \in DOMAIN transfers :
       /\ Has(transfers[id], "exchange_rate")
       /\ transfers[id].exchange_rate = FallbackRates["MXN"]


\* C34: lastFetchTime never decreases, and so the cached snapshot is never
\* replaced by the answer of a fetch that started before the one it has,
\* under every interleaving of overlapping refreshes.
C34_LastFetchTimeNeverDecreases ==
  [][lastFetchTime' >= lastFetchTime]_vars


\* the send_money invocation that created the provider transfer is still
\* waiting for the funding call
FundingPending(wiseId) ==
  \E c \in BagToSet(calls) : Has(c, "transfer") /\ c.transfer.id = wiseId

\* C35: once the send_money invocation for which the provider created a
\* transfer has returned, a stored record is marked is_real_transfer and
\* carries the provider's transfer id: no provider transfer is left whose
\* local record is a simulated one.
C35_ProviderTransferHasRealRecord ==
  \A k \in 1..Len(wiseTransfers) :
    ~FundingPending(wiseTransfers[k].id) =>
      \E id \in DOMAIN transfers :
        /\ transfers[id].is_real_transfer = TRUE
        /\ Has(transfers[id], "wise_transfer_id")
        /\ transfers[id].wise_transfer_id = wiseTransfers[k].id


\* C36: every stored Transfer has a defined numeric exchange_rate and
\* recipient_amount: send_again and quick_send persist nothing when the rate
\* snapshot has no rate for the currency of the corridor.
C36_EveryTransferHasRate ==
  \A id \in DOMAIN transfers :
    /\ Has(transfers[id], "exchange_rate")
    /\ Has(transfers[id], "recipient_amount")


\* C37: the fee breakdown and the summary that send_money returns agree with
\* the Transfer it stored: feeBreakdown.exchangeRate is the record's
\* exchange_rate, feeBreakdown.finalAmount and the amount announced in the
\* message are the record's recipient_amount, on every path.
C37_ResponseAgreesWithRecord ==
  (response.op = "send_money" /\ Accepted(response)) =>
    LET record == transfers[response.id] IN
    /\ response.feeBreakdown.exchangeRate = record.exchange_rate
    /\ response.feeBreakdown.finalAmount = record.recipient_amount
    /\ response.announced = record.recipient_amount


\* the statuses of the progression list of check_transfer_status
ProgressionList == { Statuses[i] : i \in 1..Len(Statuses) }

\* C38: the status of every stored Transfer is pending, processing or
\* completed, whatever status the provider answered with, and the status
\* check_transfer_status finds is one of its progression list.
C38_StatusInProgressionList ==
  /\ \A id \in DOMAIN transfers : transfers[id].status \in ProgressionList
  /\ (response.op = "check_transfer_status" /\ Accepted(response))
       => response.before \in ProgressionList

\* check_transfer_status has answered for a provider transfer that the
\* provider created with a status outside the list
C38_Witness ==
  /\ response.op = "check_transfer_status"
  /\ Accepted(response)
  /\ transfers[response.id].is_real_transfer
  /\ \E k \in 1..Len(wiseTransfers) :
       /\ wiseTransfers[k].id = transfers[response.id].wise_transfer_id
       /\ wiseTransfers[k].status \notin ProgressionList


\* C39: cancel_scheduled_transfer is idempotent on the stored record: the
\* record of a cancelled schedule is never changed again, and cancelled_at,
\* once set, keeps its value.
C39_CancelledRecordNeverChanges ==
  [][\A id \in DOMAIN scheduledTransfers :
       scheduledTransfers[id].status = "cancelled"
         => /\ id \in DOMAIN scheduledTransfers'
            /\ scheduledTransfers'[id] = scheduledTransfers[id]]_vars

====
